---- MODULE Spec2Model ----
(***************************************************************************)
(* Oginx: the selection-and-dispatch engine of the request-routing proxy.  *)
(*                                                                         *)
(* The model covers RequestProxy (buffered and streaming dispatch),        *)
(* LoadBalancer (registry read, health probe) and ResourceMonitorClient    *)
(* (resource gate with its usage-window cache).  Network peers (backend,   *)
(* resource monitor, registry contents) are the environment: every reply   *)
(* is drawn from a small set of outcomes.                                  *)
(***************************************************************************)
EXTENDS Integers, Sequences, FiniteSets, TLC

VARIABLES
    registry,              \* rows query.all() returns: the active records, in return order
    clock,                 \* time.time(), in seconds
    model_usage_history,   \* ResourceMonitorClient._model_usage_history: usage key -> timestamp
    mode,                  \* which dispatch entry point the current request runs
    pc,                    \* position of the current request (the await it is suspended at)
    order,                 \* candidates of the current request, in the order the loops visit them
    total_attempts,        \* total_attempts of the dispatch loop
    last_error,            \* last_error of the dispatch loop
    gate_result,           \* last value returned by check_server_resource
    backend_result,        \* last reply (or transport failure) of a backend call
    response,              \* what the dispatch handed to its caller
    events,                \* calls issued by the current request, in order
    emitted,               \* chunks the stream generator yielded to the caller
    requests,              \* dispatch calls started so far
    gate,                  \* the check_server_resource calls in progress, by caller
    selection,             \* the select_server call in progress
    openai,                \* the openai_stream_generator of the /v1/chat/completions request
    json_data              \* the caller's request body and the bodies sent to candidates

vars == <<registry, clock, model_usage_history, mode, pc, order, total_attempts,
          last_error, gate_result, backend_result, response, events, emitted, requests,
          gate, selection, openai, json_data>>

----------------------------------------------------------------------------
(* Program constants *)

SAME_MODEL_INTERVAL == 1200
MODEL_USAGE_WINDOW == 2400

(* Bounds of the model *)

\* records a registry snapshot holds at most
MaxServers == 3
\* clock advances a behaviour takes at most
MaxTicks == 5
\* dispatch calls a behaviour starts at most
MaxRequests == 2
\* chunks a backend stream delivers at most
MaxChunks == 1
\* records of an input list of the ordering function
MaxOrderLen == 3
\* time.time() when the process starts
ClockStart == 1700000000

\* one clock advance
TickSeconds == SAME_MODEL_INTERVAL \div 2

VirtualModel == "qwen3"
OtherModel == "llama3"

----------------------------------------------------------------------------
(* Registry records (OllamaServer rows as _get_servers_from_db renders them) *)

ServerA == [id |-> 1, server_url |-> "http://a:11434", actual_model_name |-> "qwen3:14b",
            weight |-> 30, priority |-> 1, type |-> "GPU", performance |-> 8,
            skip_resource_check |-> FALSE]
ServerB == [id |-> 2, server_url |-> "http://b:11434", actual_model_name |-> "qwen3:8b",
            weight |-> 70, priority |-> 1, type |-> "CPU", performance |-> 8,
            skip_resource_check |-> FALSE]
ServerC == [id |-> 3, server_url |-> "http://c:11434", actual_model_name |-> "qwen3:14b",
            weight |-> 100, priority |-> 2, type |-> "GPU", performance |-> 16,
            skip_resource_check |-> FALSE]
ServerD == [id |-> 4, server_url |-> "http://d:11434", actual_model_name |-> "qwen3:8b",
            weight |-> 70, priority |-> 1, type |-> "CPU", performance |-> 8,
            skip_resource_check |-> TRUE]

ServerPool == {ServerA, ServerB, ServerC, ServerD}

\* sequences over S of length at most n without repetition
RECURSIVE InjectiveSeqs(_, _)
InjectiveSeqs(S, n) ==
    IF n = 0 THEN {<<>>}
    ELSE LET shorter == InjectiveSeqs(S, n - 1)
             longest == {t \in shorter : Len(t) = n - 1}
             extended == {Append(s, x) : s \in longest, x \in S}
         IN  shorter \cup {q \in extended : \A i \in 1..(n - 1) : q[i] # q[n]}

\* the registry snapshots a behaviour may start from: any return order of any
\* subset of the pool
Snapshots == InjectiveSeqs(ServerPool, MaxServers)

----------------------------------------------------------------------------
(* Ranking: the order the dispatch loops visit candidates in *)

\* list.sort(key=priority): stable, ascending
RECURSIVE SortByPriority(_)
SortByPriority(servers) ==
    IF servers = <<>> THEN <<>>
    ELSE LET n == Len(servers)
             sorted == SortByPriority(SubSeq(servers, 1, n - 1))
             x == servers[n]
             k == Cardinality({i \in DOMAIN sorted : sorted[i].priority <= x.priority})
         IN  SubSeq(sorted, 1, k) \o <<x>> \o SubSeq(sorted, k + 1, Len(sorted))

\* variant: the list of an earlier read is kept and returned again
get_servers_for_model_cached(rows) ==
    IF order # <<>> THEN SortByPriority(order) ELSE SortByPriority(rows)

\* LoadBalancer.get_servers_for_model: the rows of the snapshot, sorted by priority
get_servers_for_model(rows) == SortByPriority(rows)

\* sorted(servers, key=weight, reverse=True): stable, descending
RECURSIVE SortByWeightDesc(_)
SortByWeightDesc(servers) ==
    IF servers = <<>> THEN <<>>
    ELSE LET n == Len(servers)
             sorted == SortByWeightDesc(SubSeq(servers, 1, n - 1))
             x == servers[n]
             k == Cardinality({i \in DOMAIN sorted : sorted[i].weight >= x.weight})
         IN  SubSeq(sorted, 1, k) \o <<x>> \o SubSeq(sorted, k + 1, Len(sorted))

\* variant: candidates of equal weight come out in reverse registry order
get_weighted_server_order_ties_reversed(servers) ==
    SortByWeightDesc([i \in DOMAIN servers |-> servers[Len(servers) + 1 - i]])

\* RequestProxy._get_weighted_server_order
get_weighted_server_order(servers) ==
    IF servers = <<>> THEN <<>>
    ELSE IF Len(servers) = 1 THEN servers
    ELSE SortByWeightDesc(servers)

\* priority_groups[p]: the members of tier p in the order all_servers lists them
priority_group(all_servers, p) ==
    LET InTier(s) == s.priority = p IN SelectSeq(all_servers, InTier)

\* for priority in sorted(priority_groups.keys()): for server in weighted_servers
RECURSIVE WalkTiers(_, _)
WalkTiers(all_servers, tiers) ==
    IF tiers = {} THEN <<>>
    ELSE LET p == CHOOSE q \in tiers : \A r \in tiers : q <= r
         IN  get_weighted_server_order(priority_group(all_servers, p))
                 \o WalkTiers(all_servers, tiers \ {p})

\* variant: the tiers are walked in registry order, weights not consulted
DispatchOrder_priority_only(all_servers) == all_servers

DispatchOrder(all_servers) ==
    WalkTiers(all_servers, {all_servers[i].priority : i \in DOMAIN all_servers})

----------------------------------------------------------------------------
(* Health probe *)

\* what the GET {server_url}/api/tags of a probe can end in
HealthOutcomes == {"200", "non_200", "timeout", "connect_error"}

\* variant: a probe that timed out counts as healthy
check_server_health_timeout_passes(outcome) == outcome \in {"200", "timeout"}

\* LoadBalancer.check_server_health: healthy only on a 200; every other
\* status and every exception is folded into False
check_server_health(outcome) == outcome = "200"

----------------------------------------------------------------------------
(* Resource gate: ResourceMonitorClient *)

\* usage_key = f"{server_url}:{model_name}"
UsageKey(server_url, model_name) == server_url \o ":" \o model_name

\* dict.get(key, default)
DictGet(dict, key, default) == IF key \in DOMAIN dict THEN dict[key] ELSE default

\* variant: the fast path covers five minutes only
should_skip_resource_check_5min(history, server_url, model_name, current_time) ==
    (current_time - DictGet(history, UsageKey(server_url, model_name), 0)) < 300

\* ResourceMonitorClient._should_skip_resource_check
should_skip_resource_check(history, server_url, model_name, current_time) ==
    LET last_usage_time == DictGet(history, UsageKey(server_url, model_name), 0)
    IN  (current_time - last_usage_time) < SAME_MODEL_INTERVAL

\* variant: the subtraction of the expiry test is reversed
is_expired_reversed(current_time, timestamp) == (timestamp - current_time) > MODEL_USAGE_WINDOW

\* the expiry test of _track_model_usage
is_expired(current_time, timestamp) == (current_time - timestamp) > MODEL_USAGE_WINDOW

\* variant: recording a key drops every other entry
track_model_usage_alone(history, server_url, model_name, current_time) ==
    [k \in {UsageKey(server_url, model_name)} |-> current_time]

\* ResourceMonitorClient._track_model_usage: the history after the call
track_model_usage(history, server_url, model_name, current_time) ==
    LET usage_key == UsageKey(server_url, model_name)
        recorded == [k \in DOMAIN history \cup {usage_key} |->
                        IF k = usage_key THEN current_time ELSE history[k]]
        expired_keys == {k \in DOMAIN recorded : is_expired(current_time, recorded[k])}
    IN  [k \in DOMAIN recorded \ expired_keys |-> recorded[k]]

\* what the POST /resource-check of a non-skipped check can end in
MonitorOutcomes == {"sufficient", "insufficient", "no_flag", "not_success",
                    "non_200", "bad_payload", "timeout", "request_error"}

\* variant: the time of the check is recorded whatever the request ended in
monitor_tracks_every_outcome(outcome) == TRUE

\* the outcomes on which check_server_resource reaches _track_model_usage:
\* a 200 whose payload has status 'success'
monitor_tracks(outcome) == outcome \in {"sufficient", "insufficient", "no_flag"}

NoGateResult == [sufficient |-> FALSE, skipped |-> FALSE, reason |-> "not_called", error |-> FALSE]

\* check_server_resource, the fast path: (True, {"skipped": True, "reason": ...})
SkippedResult ==
    [sufficient |-> TRUE, skipped |-> TRUE, reason |-> "same_model_concurrent", error |-> FALSE]

\* check_server_resource, after the remote call: (is_sufficient, info)
monitor_result(outcome) ==
    IF outcome = "sufficient"
    THEN [sufficient |-> TRUE, skipped |-> FALSE, reason |-> "checked", error |-> FALSE]
    ELSE IF outcome \in {"insufficient", "no_flag"}
    THEN [sufficient |-> FALSE, skipped |-> FALSE, reason |-> "checked", error |-> FALSE]
    ELSE [sufficient |-> FALSE, skipped |-> FALSE, reason |-> outcome, error |-> TRUE]

\* variant: the answer of the gate is not looked at
gate_rejects_never(result) == FALSE

\* the dispatch loops' test after the gate:
\* if not is_sufficient and not resource_info.get('skipped', False): candidate fails
gate_rejects(result) == ~result.sufficient /\ ~result.skipped

\* variant: the flag of the record is not read
needs_resource_check_always(server) == TRUE

\* skip_resource_check = server.get('skip_resource_check', False): the gate is
\* consulted only when the flag is not set
needs_resource_check(server) == ~server.skip_resource_check

----------------------------------------------------------------------------
(* Backend replies *)

StatusCodes == {200, 399, 400, 404, 500, 503}

\* a reply body: JSON object (with or without a model field and a models
\* list of {name: ...} entries; modelsOk is false for a models value that is
\* not a list of objects), another JSON value, or text that is not JSON
Bodies(actual_model_name) ==
    {[kind |-> "object", hasModel |-> m, model |-> IF m THEN actual_model_name ELSE "",
      hasModels |-> l, models |-> IF l THEN <<OtherModel, actual_model_name>> ELSE <<>>,
      modelsOk |-> TRUE] :
        m \in BOOLEAN, l \in BOOLEAN}
    \cup {[kind |-> "object", hasModel |-> m, model |-> IF m THEN actual_model_name ELSE "",
           hasModels |-> TRUE, models |-> <<>>, modelsOk |-> FALSE] : m \in BOOLEAN}
    \cup {[kind |-> k, hasModel |-> FALSE, model |-> "", hasModels |-> FALSE, models |-> <<>>,
           modelsOk |-> TRUE] : k \in {"array", "text"}}

NoBody == [kind |-> "none", hasModel |-> FALSE, model |-> "", hasModels |-> FALSE,
           models |-> <<>>, modelsOk |-> TRUE]

\* what client.request / client.stream can end in
BackendReplies(actual_model_name) ==
    {[net |-> "ok", status |-> s, body |-> b] :
        s \in StatusCodes, b \in Bodies(actual_model_name)}
    \cup {[net |-> n, status |-> 0, body |-> NoBody] : n \in {"timeout", "request_error"}}

\* the statuses an opened stream can show, one for each branch of the checks of
\* stream_generator
StreamStatusCodes == {200, 400, 404, 500}

\* how client.stream(...) ends for the generator; the body arrives later, in chunks
StreamReplies ==
    {[net |-> "ok", status |-> s] : s \in StreamStatusCodes}
    \cup {[net |-> n, status |-> 0] : n \in {"timeout", "request_error"}}

\* the last backend reply: how the call ended, the status, whether handling an
\* accepted reply raised, and the body of an accepted reply
NoBackendResult == [net |-> "none", status |-> 0, raised |-> FALSE, body |-> NoBody]

\* variant: a client error other than 404 is handed back as the answer
status_error_4xx_accepted(status) ==
    IF status = 404 THEN "not_found"
    ELSE IF status >= 500 THEN "server_error"
    ELSE "none"

\* _try_single_server, the status checks: the error raised, "none" when accepted
status_error(status) ==
    IF status = 404 THEN "not_found"
    ELSE IF status = 503 THEN "unavailable"
    ELSE IF status >= 500 THEN "server_error"
    ELSE IF status >= 400 THEN "client_error"
    ELSE "none"

\* variant: the opened stream is refused on a server error only
stream_status_error_5xx_only(status) ==
    IF status >= 500 THEN "server_error" ELSE "none"

\* stream_generator, the status checks on the opened stream
stream_status_error(status) ==
    IF status = 404 THEN "not_found"
    ELSE IF status >= 500 THEN "server_error"
    ELSE IF status >= 400 THEN "client_error"
    ELSE "none"

\* the rewrite of an accepted reply raises: the models branch is reached (no
\* model field) and iterating the value or calling .get on an entry fails; the
\* last except clause of _try_single_server logs and re-raises
rewrite_raises(body) ==
    body.kind = "object" /\ ~body.hasModel /\ body.hasModels /\ ~body.modelsOk

\* the error a backend call ends in, "none" when the reply is accepted:
\* httpx.TimeoutException and httpx.RequestError are re-raised as Exception
reply_error(reply) ==
    IF reply.net # "ok" THEN reply.net
    ELSE IF status_error(reply.status) # "none" THEN status_error(reply.status)
    ELSE IF rewrite_raises(reply.body) THEN "handling"
    ELSE "none"

stream_reply_error(reply) ==
    IF reply.net = "ok" THEN stream_status_error(reply.status) ELSE reply.net

\* variant: the error reported is the one of the first candidate of the walk
Failure_first_candidate(server, kind) ==
    [id |-> order[1].id,
     kind |-> IF kind \in {"health", "resource", "handling"} THEN kind
              ELSE IF kind \in {"timeout", "request_error"} THEN "transport"
              ELSE "http"]

\* the exception the loop stores in last_error: the candidate and the kind of failure
Failure(server, kind) ==
    [id |-> server.id,
     kind |-> IF kind \in {"health", "resource", "handling", "http_exception"} THEN kind
              ELSE IF kind \in {"timeout", "request_error"} THEN "transport"
              ELSE "http"]

\* for model_info in response_data['models']: rename the entries named actual
rename_models(models, model_name, actual_model_name) ==
    [i \in DOMAIN models |-> IF models[i] = actual_model_name THEN model_name ELSE models[i]]

\* _try_single_server, "将实际模型名替换回虚拟模型名": the data returned to the caller
rewrite_response(body, model_name, actual_model_name) ==
    IF body.kind = "text"
    THEN [body EXCEPT !.kind = "wrapped_text"]
    ELSE IF body.kind = "object"
    THEN IF body.hasModel
         THEN [body EXCEPT !.model = model_name]
         ELSE IF body.hasModels
              THEN [body EXCEPT !.models = rename_models(body.models, model_name, actual_model_name)]
              ELSE body
    ELSE body

\* what the registry does with the update of the counter: done, or not done
\* (the database raises, or no row has the id: both are only logged)
IncrementOutcomes == {"ok", "failed"}

\* variant: a failed update is let through to the caller of the increment
increment_raises_on_failure(outcome) == outcome = "failed"

\* DatabaseManager.increment_server_count: whether the call raises; every
\* exception is caught and logged, a missing row is logged
increment_raises(outcome) == FALSE

\* whether the success path reaches db_manager.increment_server_count: it sits
\* inside the try that response.json() leaves on a JSONDecodeError
increments_on(body) == body.kind # "text"

----------------------------------------------------------------------------
(* State of one dispatch call *)

\* the coroutines that may be inside check_server_resource at the same time
Callers == {"c1", "c2"}

\* a caller that is not inside check_server_resource
IdleCall == [pc |-> "idle", server_url |-> "", model_name |-> "", outcome |-> "none",
             result |-> NoGateResult]

NoError == [id |-> 0, kind |-> "none"]
NoResponse == [kind |-> "none", server |-> 0, status |-> 0, detail |-> "", total_servers |-> 0,
               last_error |-> NoError, body |-> NoBody]

\* variant: an empty registry falls through the loops to their terminal failure
NoServersConfigured_as_exhausted ==
    [NoResponse EXCEPT !.kind = "http_error", !.status = 503, !.detail = "all_servers_unavailable"]

\* raise HTTPException(status_code=503, detail=... 没有配置的服务器)
NoServersConfigured ==
    [NoResponse EXCEPT !.kind = "http_error", !.status = 503, !.detail = "no_servers_configured"]

\* raise HTTPException(status_code=503, detail=... 所有 {total_servers} 个服务器都不可用 ... {last_error})
AllServersUnavailable(total_servers, err) ==
    [NoResponse EXCEPT !.kind = "http_error", !.status = 503, !.detail = "all_servers_unavailable",
                       !.total_servers = total_servers, !.last_error = err]

\* return response_data
DataResponse(server, body) == [NoResponse EXCEPT !.kind = "data", !.server = server.id, !.body = body]

\* return StreamingResponse(stream_generator(), ...)
StreamingResponse(server) == [NoResponse EXCEPT !.kind = "stream", !.server = server.id]

Event(op, server, res) == [op |-> op, id |-> server.id, res |-> res]

\* a request has ended: its coroutine returned or raised, its generator is exhausted
TerminalPcs == {"success", "exhausted", "no_config", "stream_done", "propagated", "cancelled",
                "diag_done"}

\* variant: the loop goes back to the head of the order after a failure
Current_head_again == order[1]

\* the candidate the loop is at
Current == order[total_attempts]

\* variant: the loop gives up once the tier of the failed candidate is used up
AfterFailure_same_tier(err) ==
    IF total_attempts < Len(order) /\ order[total_attempts + 1].priority = Current.priority
    THEN [pc |-> "health", total_attempts |-> total_attempts + 1, response |-> response]
    ELSE [pc |-> "exhausted", total_attempts |-> total_attempts,
          response |-> AllServersUnavailable(Len(order), err)]

\* variant: a failed candidate is tried again
AfterFailure_same_candidate(err) ==
    [pc |-> "health", total_attempts |-> total_attempts, response |-> response]

\* except Exception as e: last_error = e; continue -- the loop moves to the next
\* candidate of the walk (total_attempts += 1 and its probe is issued) or, past the
\* last candidate of the last tier, raises the terminal 503
AfterFailure(err) ==
    IF total_attempts < Len(order)
    THEN [pc |-> "health", total_attempts |-> total_attempts + 1, response |-> response]
    ELSE [pc |-> "exhausted", total_attempts |-> total_attempts,
          response |-> AllServersUnavailable(Len(order), err)]

\* the JSON body of a request, as far as it names a model: /api/chat,
\* /api/generate and /api/embeddings read the virtual model from `model`,
\* /api/show from `name` or else from `model`
RequestBody(hasModel, hasName) ==
    [hasModel |-> hasModel, model |-> IF hasModel THEN VirtualModel ELSE "",
     hasName |-> hasName, name |-> IF hasName THEN VirtualModel ELSE ""]

ChatBody == RequestBody(TRUE, FALSE)

\* the bodies POST /api/show dispatches: json_data.get('name') or json_data.get('model')
ShowBodies == {RequestBody(m, n) : m \in BOOLEAN, n \in BOOLEAN} \ {RequestBody(FALSE, FALSE)}

\* json_data as the endpoint passes it on, and the request_json sent so far
CallerRequest(body) == [original |-> body, sent |-> <<>>]

\* request_json = json_data.copy(); if 'model' in request_json:
\* request_json['model'] = actual_model_name
request_json(body, actual_model_name) ==
    IF body.hasModel THEN [body EXCEPT !.model = actual_model_name] ELSE body

\* client.request / client.stream with json=request_json for the candidate
Forwarded(server) ==
    [json_data EXCEPT !.sent = Append(@, request_json(json_data.original,
                                                      server.actual_model_name))]

\* no /v1/chat/completions stream has been asked for
NoOpenAIStream == [pc |-> "idle", request |-> 0, read |-> 0, out |-> <<>>, json_bound |-> FALSE]

\* no select_server call has been made
NoSelection == [pc |-> "idle", tier |-> 0, group |-> <<>>, awaited |-> 0, probed |-> <<>>,
                started |-> {}, result |-> 0, counted |-> 0]

Init ==
    /\ registry \in Snapshots
    /\ clock = ClockStart
    /\ model_usage_history = <<>>
    /\ mode = "none"
    /\ pc = "idle"
    /\ order = <<>>
    /\ total_attempts = 0
    /\ last_error = NoError
    /\ gate_result = NoGateResult
    /\ backend_result = NoBackendResult
    /\ response = NoResponse
    /\ events = <<>>
    /\ emitted = <<>>
    /\ requests = 0
    /\ gate = [c \in Callers |-> IdleCall]
    /\ selection = NoSelection
    /\ openai = NoOpenAIStream
    /\ json_data = CallerRequest(ChatBody)

----------------------------------------------------------------------------
(* Buffered dispatch: RequestProxy._proxy_model_request / _try_single_server *)

\* a dispatch call enters: the registry is read, the candidates are grouped and
\* ordered, and the first candidate's probe is issued
StartDispatch(m) ==
    /\ pc \in {"idle"} \cup TerminalPcs
    /\ m = "streaming" => json_data.original.hasModel
    /\ requests < MaxRequests
    /\ requests' = requests + 1
    /\ mode' = m
    /\ LET all_servers == get_servers_for_model(registry)
       IN  IF all_servers = <<>>
           THEN /\ pc' = "no_config"
                /\ response' = NoServersConfigured
                /\ order' = <<>>
                /\ total_attempts' = 0
           ELSE /\ pc' = "health"
                /\ response' = NoResponse
                /\ order' = DispatchOrder(all_servers)
                /\ total_attempts' = 1
    /\ last_error' = NoError
    /\ gate_result' = NoGateResult
    /\ backend_result' = NoBackendResult
    /\ events' = <<>>
    /\ emitted' = <<>>
    /\ json_data' = CallerRequest(json_data.original)
    /\ UNCHANGED <<openai, selection, registry, clock, model_usage_history, gate>>

StartBuffered == StartDispatch("buffered")

\* the probe of the current candidate returns; a healthy candidate goes on to the
\* resource gate (skip flag, fast path or remote check) and then to the backend call
BufferedHealthReturn ==
    /\ mode = "buffered"
    /\ pc = "health"
    /\ \E outcome \in HealthOutcomes :
        LET server == Current
            healthy == check_server_health(outcome)
            probed == Append(events, Event("probe", server, IF healthy THEN "healthy" ELSE "unhealthy"))
            err == Failure(server, "health")
            nxt == AfterFailure(err)
        IN  IF ~healthy
            THEN /\ events' = probed
                 /\ last_error' = err
                 /\ pc' = nxt.pc
                 /\ total_attempts' = nxt.total_attempts
                 /\ response' = nxt.response
                 /\ gate_result' = NoGateResult
            ELSE IF ~needs_resource_check(server)
            THEN /\ events' = probed
                 /\ pc' = "forward"
                 /\ gate_result' = NoGateResult
                 /\ UNCHANGED <<last_error, total_attempts, response>>
            ELSE IF should_skip_resource_check(model_usage_history, server.server_url,
                                               VirtualModel, clock)
            THEN /\ events' = Append(probed, Event("check", server, "skipped"))
                 /\ gate_result' = SkippedResult
                 /\ pc' = "forward"
                 /\ UNCHANGED <<last_error, total_attempts, response>>
            ELSE /\ events' = Append(probed, Event("check", server, "remote"))
                 /\ pc' = "monitor"
                 /\ gate_result' = NoGateResult
                 /\ UNCHANGED <<last_error, total_attempts, response>>
    /\ backend_result' = NoBackendResult
    /\ UNCHANGED <<json_data, openai, selection, registry, clock, model_usage_history, mode, order, emitted, requests, gate>>

\* the POST /resource-check of the current candidate returns
BufferedMonitorReturn ==
    /\ mode = "buffered"
    /\ pc = "monitor"
    /\ \E outcome \in MonitorOutcomes :
        LET server == Current
            result == monitor_result(outcome)
            err == Failure(server, "resource")
            nxt == AfterFailure(err)
        IN  /\ gate_result' = result
            /\ events' = Append(events, Event("monitor", server,
                                IF result.error THEN "error"
                                ELSE IF result.sufficient THEN "sufficient" ELSE "insufficient"))
            /\ model_usage_history' =
                   IF monitor_tracks(outcome)
                   THEN track_model_usage(model_usage_history, server.server_url,
                                          VirtualModel, clock)
                   ELSE model_usage_history
            /\ IF gate_rejects(result)
               THEN /\ last_error' = err
                    /\ pc' = nxt.pc
                    /\ total_attempts' = nxt.total_attempts
                    /\ response' = nxt.response
               ELSE /\ pc' = "forward"
                    /\ UNCHANGED <<last_error, total_attempts, response>>
    /\ UNCHANGED <<json_data, openai, selection, registry, clock, mode, order, backend_result, emitted, requests, gate>>

\* client.request(...) to the current candidate returns or fails
BufferedBackendReturn ==
    /\ mode = "buffered"
    /\ pc = "forward"
    /\ \E reply \in BackendReplies(Current.actual_model_name) :
        LET server == Current
            kind == reply_error(reply)
            err == Failure(server, kind)
            nxt == AfterFailure(err)
        IN  /\ backend_result' = [net |-> reply.net, status |-> reply.status,
                                   raised |-> kind = "handling",
                                   body |-> IF kind = "none" THEN reply.body ELSE NoBody]
            /\ IF kind # "none"
               THEN /\ events' = Append(events, Event("call", server, "rejected"))
                    /\ last_error' = err
                    /\ pc' = nxt.pc
                    /\ total_attempts' = nxt.total_attempts
                    /\ response' = nxt.response
               ELSE IF ~increments_on(reply.body)
               THEN /\ events' = Append(events, Event("call", server, "accepted"))
                    /\ pc' = "success"
                    /\ response' = DataResponse(server,
                                       rewrite_response(reply.body, VirtualModel,
                                                        server.actual_model_name))
                    /\ UNCHANGED <<last_error, total_attempts>>
               ELSE \E counted \in IncrementOutcomes :
                    LET raised == Failure(server, "handling")
                        after == AfterFailure(raised)
                    IN  /\ events' = events \o <<Event("call", server, "accepted"),
                                                  Event("incr", server, counted)>>
                        /\ IF increment_raises(counted)
                           THEN /\ last_error' = raised
                                /\ pc' = after.pc
                                /\ total_attempts' = after.total_attempts
                                /\ response' = after.response
                           ELSE /\ pc' = "success"
                                /\ response' = DataResponse(server,
                                                   rewrite_response(reply.body, VirtualModel,
                                                                    server.actual_model_name))
                                /\ UNCHANGED <<last_error, total_attempts>>
    /\ json_data' = Forwarded(Current)
    /\ UNCHANGED <<openai, selection, registry, clock, model_usage_history, mode, order, gate_result,
                   emitted, requests, gate>>

----------------------------------------------------------------------------
(* Streaming dispatch: RequestProxy.proxy_streaming_request *)

StartStreaming == StartDispatch("streaming")

\* the probe of the current candidate returns; a candidate that passes the probe
\* and the gate is handed to _create_streaming_response, which builds the
\* StreamingResponse without any network call, and the dispatch returns it
StreamingHealthReturn ==
    /\ mode = "streaming"
    /\ pc = "health"
    /\ \E outcome \in HealthOutcomes :
        LET server == Current
            healthy == check_server_health(outcome)
            probed == Append(events, Event("probe", server, IF healthy THEN "healthy" ELSE "unhealthy"))
            err == Failure(server, "health")
            nxt == AfterFailure(err)
        IN  IF ~healthy
            THEN /\ events' = probed
                 /\ last_error' = err
                 /\ pc' = nxt.pc
                 /\ total_attempts' = nxt.total_attempts
                 /\ response' = nxt.response
                 /\ gate_result' = NoGateResult
            ELSE IF ~needs_resource_check(server)
            THEN /\ events' = probed
                 /\ pc' = "returned"
                 /\ response' = StreamingResponse(server)
                 /\ gate_result' = NoGateResult
                 /\ UNCHANGED <<last_error, total_attempts>>
            ELSE IF should_skip_resource_check(model_usage_history, server.server_url,
                                               VirtualModel, clock)
            THEN /\ events' = Append(probed, Event("check", server, "skipped"))
                 /\ gate_result' = SkippedResult
                 /\ pc' = "returned"
                 /\ response' = StreamingResponse(server)
                 /\ UNCHANGED <<last_error, total_attempts>>
            ELSE /\ events' = Append(probed, Event("check", server, "remote"))
                 /\ pc' = "monitor"
                 /\ gate_result' = NoGateResult
                 /\ UNCHANGED <<last_error, total_attempts, response>>
    /\ backend_result' = NoBackendResult
    /\ UNCHANGED <<json_data, openai, selection, registry, clock, model_usage_history, mode, order, emitted, requests, gate>>

\* variant: the streaming loop hands the candidate on whatever the check said
StreamingMonitorReturn_lenient ==
    /\ mode = "streaming"
    /\ pc = "monitor"
    /\ \E outcome \in MonitorOutcomes :
        LET server == Current
            result == monitor_result(outcome)
        IN  /\ gate_result' = result
            /\ events' = Append(events, Event("monitor", server,
                                IF result.error THEN "error"
                                ELSE IF result.sufficient THEN "sufficient" ELSE "insufficient"))
            /\ model_usage_history' =
                   IF monitor_tracks(outcome)
                   THEN track_model_usage(model_usage_history, server.server_url,
                                          VirtualModel, clock)
                   ELSE model_usage_history
            /\ pc' = "returned"
            /\ response' = StreamingResponse(server)
            /\ UNCHANGED <<last_error, total_attempts>>
    /\ UNCHANGED <<json_data, openai, selection, registry, clock, mode, order, backend_result, emitted,
                   requests, gate>>

\* the POST /resource-check of the current candidate returns
StreamingMonitorReturn ==
    /\ mode = "streaming"
    /\ pc = "monitor"
    /\ \E outcome \in MonitorOutcomes :
        LET server == Current
            result == monitor_result(outcome)
            err == Failure(server, "resource")
            nxt == AfterFailure(err)
        IN  /\ gate_result' = result
            /\ events' = Append(events, Event("monitor", server,
                                IF result.error THEN "error"
                                ELSE IF result.sufficient THEN "sufficient" ELSE "insufficient"))
            /\ model_usage_history' =
                   IF monitor_tracks(outcome)
                   THEN track_model_usage(model_usage_history, server.server_url,
                                          VirtualModel, clock)
                   ELSE model_usage_history
            /\ IF gate_rejects(result)
               THEN /\ last_error' = err
                    /\ pc' = nxt.pc
                    /\ total_attempts' = nxt.total_attempts
                    /\ response' = nxt.response
               ELSE /\ pc' = "returned"
                    /\ response' = StreamingResponse(server)
                    /\ UNCHANGED <<last_error, total_attempts>>
    /\ UNCHANGED <<json_data, openai, selection, registry, clock, mode, order, backend_result, emitted, requests, gate>>

----------------------------------------------------------------------------
(* The stream generator: RequestProxy._create_streaming_response.stream_generator *)

\* a chunk of response.aiter_text(): one JSON object, several JSON lines in one
\* chunk, text that is not JSON, or whitespace only
Chunks(actual_model_name) ==
    {[kind |-> "object", hasModel |-> m, model |-> IF m THEN actual_model_name ELSE ""] :
        m \in BOOLEAN}
    \cup {[kind |-> "lines", hasModel |-> TRUE, model |-> actual_model_name]}
    \cup {[kind |-> k, hasModel |-> FALSE, model |-> ""] : k \in {"text", "blank"}}

\* yield f"data: {json.dumps({'error': error_msg})}\n\n"
ErrorEvent == [form |-> "error_event", kind |-> "object", hasModel |-> FALSE, model |-> ""]

\* the body of the async for: what one chunk makes the generator yield
forward_chunk(chunk, model_name) ==
    IF chunk.kind = "blank" THEN <<>>
    ELSE IF chunk.kind \in {"object", "array"}
    THEN <<[form |-> "json_line"] @@
           [chunk EXCEPT !.model = IF chunk.kind = "object" /\ chunk.hasModel THEN model_name
                                   ELSE @]>>
    ELSE <<[form |-> "verbatim"] @@ chunk>>

ChunksReceived == Len(SelectSeq(events, LAMBDA e : e.op = "chunk"))

\* the caller iterates the response: client.stream(...) opens the connection to
\* the chosen candidate and the status is examined
StreamOpen ==
    /\ mode = "streaming"
    /\ pc = "returned"
    /\ \E reply \in StreamReplies :
        LET server == Current
            kind == stream_reply_error(reply)
        IN  /\ backend_result' = [net |-> reply.net, status |-> reply.status, raised |-> FALSE,
                                   body |-> NoBody]
            /\ IF kind # "none"
               THEN /\ events' = Append(events, Event("call", server, "rejected"))
                    /\ emitted' = Append(emitted, ErrorEvent)
                    /\ pc' = "stream_done"
               ELSE \E counted \in IncrementOutcomes :
                    /\ events' = events \o <<Event("call", server, "accepted"),
                                              Event("incr", server, counted)>>
                    /\ IF increment_raises(counted)
                       THEN /\ emitted' = Append(emitted, ErrorEvent)
                            /\ pc' = "stream_done"
                       ELSE /\ emitted' = emitted
                            /\ pc' = "streaming"
    /\ json_data' = Forwarded(Current)
    /\ UNCHANGED <<openai, selection, registry, clock, model_usage_history, mode, order, total_attempts,
                   last_error, gate_result, response, requests, gate>>

\* async for chunk in response.aiter_text(): the backend delivers one more
\* chunk, one of the given ones
StreamChunkOf(chunks) ==
    /\ mode = "streaming"
    /\ pc = "streaming"
    /\ ChunksReceived < MaxChunks
    /\ \E chunk \in chunks :
        /\ events' = Append(events, Event("chunk", Current, chunk.kind))
        /\ emitted' = emitted \o forward_chunk(chunk, VirtualModel)
    /\ UNCHANGED <<json_data, openai, selection, registry, clock, model_usage_history, mode, pc, order, total_attempts,
                   last_error, gate_result, backend_result, response, requests, gate>>

\* the backend delivers one more chunk
StreamChunk == StreamChunkOf(Chunks(Current.actual_model_name))

\* variant: a failed stream is abandoned silently and the next candidate is probed
StreamFail_next_candidate ==
    /\ mode = "streaming"
    /\ pc = "streaming"
    /\ events' = Append(events, Event("stream_error", Current, "raised"))
    /\ LET nxt == AfterFailure(Failure(Current, "transport"))
       IN  /\ pc' = nxt.pc
           /\ total_attempts' = nxt.total_attempts
           /\ response' = nxt.response
    /\ UNCHANGED <<json_data, openai, selection, registry, clock, model_usage_history, mode, order, last_error,
                   gate_result, backend_result, emitted, requests, gate>>

\* the open stream fails (read timeout, connection lost): except Exception
StreamFail ==
    /\ mode = "streaming"
    /\ pc = "streaming"
    /\ events' = Append(events, Event("stream_error", Current, "raised"))
    /\ emitted' = Append(emitted, ErrorEvent)
    /\ pc' = "stream_done"
    /\ UNCHANGED <<json_data, openai, selection, registry, clock, model_usage_history, mode, order, total_attempts,
                   last_error, gate_result, backend_result, response, requests, gate>>

\* the backend closes the stream
StreamEnd ==
    /\ mode = "streaming"
    /\ pc = "streaming"
    /\ pc' = "stream_done"
    /\ UNCHANGED <<json_data, openai, selection, registry, clock, model_usage_history, mode, order, total_attempts,
                   last_error, gate_result, backend_result, response, events, emitted,
                   requests, gate>>

----------------------------------------------------------------------------

Next ==
    \/ StartBuffered
    \/ BufferedHealthReturn
    \/ BufferedMonitorReturn
    \/ BufferedBackendReturn
    \/ StartStreaming
    \/ StreamingHealthReturn
    \/ StreamingMonitorReturn
    \/ StreamOpen
    \/ StreamChunk
    \/ StreamFail
    \/ StreamEnd

\* the dispatch of requests over any registry snapshot
Spec == Init /\ [][Next]_vars

\* every awaited call of the dispatch loops is made through an httpx client with
\* a timeout (health_check_timeout, the resource monitor's timeout,
\* client_timeout): it returns or raises, and the loop resumes
NetworkCallsReturn ==
    /\ WF_vars(BufferedHealthReturn)
    /\ WF_vars(BufferedMonitorReturn)
    /\ WF_vars(BufferedBackendReturn)
    /\ WF_vars(StreamingHealthReturn)
    /\ WF_vars(StreamingMonitorReturn)

\* the records of the registry these requests are served from: two tiers, one
\* record exempt from the resource gate
LivePool == {ServerA, ServerC, ServerD}

InitLive ==
    /\ registry \in InjectiveSeqs(LivePool, Cardinality(LivePool))
    /\ clock = ClockStart
    /\ model_usage_history = <<>>
    /\ mode = "none"
    /\ pc = "idle"
    /\ order = <<>>
    /\ total_attempts = 0
    /\ last_error = NoError
    /\ gate_result = NoGateResult
    /\ backend_result = NoBackendResult
    /\ response = NoResponse
    /\ events = <<>>
    /\ emitted = <<>>
    /\ requests = 0
    /\ gate = [c \in Callers |-> IdleCall]
    /\ selection = NoSelection
    /\ openai = NoOpenAIStream
    /\ json_data = CallerRequest(ChatBody)

\* the dispatch of requests whose network calls all return or time out
SpecLive == InitLive /\ [][Next]_vars /\ NetworkCallsReturn

----------------------------------------------------------------------------
(* The OpenAI-compatible streaming surface: chat_completions with stream = true.
   openai_stream_generator awaits the streaming dispatch and then pulls the
   chunks of the native generator one by one; the native generator runs only
   when it is pulled. *)

\* the chunks of an /api/chat stream: a JSON object with or without the done
\* flag, a JSON value that is not an object, and text that is not one JSON value
\* (aiter_text cuts the stream anywhere)
ChatChunks(actual_model_name) ==
    {[kind |-> "object", hasModel |-> TRUE, model |-> actual_model_name, done |-> d] :
        d \in BOOLEAN}
    \cup {[kind |-> k, hasModel |-> FALSE, model |-> "", done |-> FALSE] : k \in {"array", "text"}}

\* yield f"data: {json.dumps(openai_chunk)}\n\n", finish_reason "stop" or None
OpenAIChunk(finish) == [form |-> "chunk", finish |-> finish, message |-> ""]

\* yield "data: [DONE]\n\n"
DoneSentinel == [form |-> "done", finish |-> FALSE, message |-> ""]

\* yield f"data: {json.dumps(error_chunk)}\n\n" with message str(e)
OpenAIError(message) == [form |-> "error", finish |-> FALSE, message |-> message]

\* the generator has returned or raised
OpenAITerminal == {"done", "ended", "failed", "crashed"}

\* the generator of the current request is running
OpenAIRunning == openai.pc = "called" /\ requests = openai.request

\* the generator is suspended in the native generator: it has handled every
\* chunk yielded so far
OpenAIPulling == OpenAIRunning /\ openai.read = Len(emitted)

\* POST /v1/chat/completions with stream = true: the endpoint returns
\* StreamingResponse(openai_stream_generator()) and the server starts to iterate
OpenAICall ==
    /\ openai.pc \in {"idle"} \cup OpenAITerminal
    /\ pc \in {"idle"} \cup TerminalPcs
    /\ requests < MaxRequests
    /\ openai' = [pc |-> "called", request |-> requests + 1, read |-> 0, out |-> <<>>,
                  json_bound |-> FALSE]
    /\ UNCHANGED <<json_data, selection, registry, clock, model_usage_history, mode, pc, order,
                   total_attempts, last_error, gate_result, backend_result, response,
                   events, emitted, requests, gate>>

\* streaming_response = await request_proxy.proxy_streaming_request(...)
OpenAIDispatch == openai.pc = "called" /\ requests + 1 = openai.request /\ StartStreaming
OpenAIHealthReturn == OpenAIRunning /\ StreamingHealthReturn
OpenAIMonitorReturn == OpenAIRunning /\ StreamingMonitorReturn

\* the dispatch raised its HTTPException: except Exception as e. `import json`
\* in the body of the loop makes json a local name of the generator, so
\* json.dumps(error_chunk) raises UnboundLocalError unless a chunk was handled before
OpenAIDispatchRaised ==
    /\ OpenAIRunning
    /\ pc \in {"no_config", "exhausted"}
    /\ openai' = IF openai.json_bound
                 THEN [openai EXCEPT !.pc = "failed",
                                     !.out = Append(@, OpenAIError("http_exception"))]
                 ELSE [openai EXCEPT !.pc = "crashed"]
    /\ UNCHANGED <<json_data, selection, registry, clock, model_usage_history, mode, pc, order,
                   total_attempts, last_error, gate_result, backend_result, response,
                   events, emitted, requests, gate>>

\* async for chunk in streaming_response.body_iterator: the native generator is resumed
OpenAIStreamOpen == OpenAIPulling /\ StreamOpen
OpenAIStreamChunk == OpenAIPulling /\ StreamChunkOf(ChatChunks(Current.actual_model_name))
OpenAIStreamFail == OpenAIPulling /\ StreamFail
OpenAIStreamEnd == OpenAIPulling /\ StreamEnd

\* the body of the async for, for the chunk the native generator has yielded:
\* json.loads, the conversion, and the sentinel after a chunk with done set.
\* After break or after the except clause the native generator is dropped and
\* finalized
OpenAIConsume ==
    /\ OpenAIRunning
    /\ openai.read < Len(emitted)
    /\ LET chunk == emitted[openai.read + 1]
           bound == [openai EXCEPT !.read = @ + 1, !.json_bound = TRUE]
       IN  IF chunk.form = "json_line" /\ chunk.kind = "object"
           THEN IF chunk.done
                THEN /\ openai' = [bound EXCEPT !.pc = "done",
                                                !.out = @ \o <<OpenAIChunk(TRUE), DoneSentinel>>]
                     /\ pc' = "stream_done"
                ELSE /\ openai' = [bound EXCEPT !.out = Append(@, OpenAIChunk(FALSE))]
                     /\ pc' = pc
           ELSE IF chunk.form = "json_line"
           THEN \* ollama_data.get on a value that is no dict: AttributeError
                /\ openai' = [bound EXCEPT !.pc = "failed",
                                           !.out = Append(@, OpenAIError("attribute_error"))]
                /\ pc' = "stream_done"
           ELSE \* except json.JSONDecodeError: continue
                /\ openai' = bound
                /\ pc' = pc
    /\ UNCHANGED <<json_data, selection, registry, clock, model_usage_history, mode, order,
                   total_attempts, last_error, gate_result, backend_result, response,
                   events, emitted, requests, gate>>

\* the native generator is exhausted: the async for ends and the generator returns
OpenAILoopEnd ==
    /\ OpenAIPulling
    /\ pc = "stream_done"
    /\ openai' = [openai EXCEPT !.pc = "ended"]
    /\ UNCHANGED <<json_data, selection, registry, clock, model_usage_history, mode, pc, order,
                   total_attempts, last_error, gate_result, backend_result, response,
                   events, emitted, requests, gate>>

NextOpenAI ==
    \/ OpenAICall
    \/ OpenAIDispatch
    \/ OpenAIHealthReturn
    \/ OpenAIMonitorReturn
    \/ OpenAIDispatchRaised
    \/ OpenAIStreamOpen
    \/ OpenAIStreamChunk
    \/ OpenAIStreamFail
    \/ OpenAIStreamEnd
    \/ OpenAIConsume
    \/ OpenAILoopEnd

SpecOpenAI == Init /\ [][NextOpenAI]_vars

----------------------------------------------------------------------------
(* Buffered dispatch when a callee raises an HTTPException while a candidate is
   tried: the case the handler `except HTTPException: raise` of
   _try_single_server is written for. No statement reached from
   _try_single_server raises one, so the case is kept out of Spec. *)

\* the classes the loop's `except Exception as e` catches: fastapi's
\* HTTPException derives from Exception
loop_catches(exception_class) == exception_class \in {"Exception", "HTTPException"}

\* the HTTPException as it leaves proxy_request when nothing catches it
Propagated(server) ==
    [NoResponse EXCEPT !.kind = "http_error", !.detail = "propagated", !.server = server.id]

\* an HTTPException is raised inside _try_single_server: its handler re-raises
\* it, and the except clause of the loop around the call decides what follows
TryRaisesHTTPException ==
    /\ mode = "buffered"
    /\ pc \in {"health", "monitor", "forward"}
    /\ LET server == Current
           err == Failure(server, "http_exception")
           nxt == AfterFailure(err)
       IN  /\ events' = Append(events, Event("raise", server, "http_exception"))
           /\ IF loop_catches("HTTPException")
              THEN /\ last_error' = err
                   /\ pc' = nxt.pc
                   /\ total_attempts' = nxt.total_attempts
                   /\ response' = nxt.response
              ELSE /\ pc' = "propagated"
                   /\ response' = Propagated(server)
                   /\ UNCHANGED <<last_error, total_attempts>>
    /\ gate_result' = NoGateResult
    /\ backend_result' = NoBackendResult
    /\ UNCHANGED <<json_data, openai, selection, registry, clock, model_usage_history, mode, order, emitted, requests, gate>>

NextRaise ==
    \/ Next
    \/ TryRaisesHTTPException

SpecRaise == Init /\ [][NextRaise]_vars

----------------------------------------------------------------------------
(* The caller goes away while its request is served. No handler, dispatch loop
   or generator of the program looks at the connection (none calls
   request.is_disconnected()), so what happens is what the server does with the
   running coroutine. *)

\* the awaits of the dispatch coroutine, which the endpoint is awaiting
DispatchAwaits == {"health", "monitor", "forward"}

\* the StreamingResponse has been returned and its generator is being iterated
StreamAwaits == {"returned", "streaming"}

\* whether any except clause around the awaits of the dispatch catches the
\* exception class: all of them are `except Exception` or narrower, and
\* asyncio.CancelledError derives from BaseException
catches_cancellation(exception_class) == exception_class = "Exception"

\* the caller closes the connection; the event keeps the await the request was
\* suspended at. While the response body is being sent the
\* server stops iterating the generator and cancels it; while the endpoint still
\* awaits the dispatch the server either cancels the coroutine or lets it run on
CallerDisconnects ==
    /\ pc \in DispatchAwaits \cup StreamAwaits
    /\ \A k \in DOMAIN events : events[k].op # "disconnect"
    /\ events' = Append(events, Event("disconnect", Current, pc))
    /\ \E cancelled \in BOOLEAN :
          IF (pc \in StreamAwaits \/ cancelled) /\ ~catches_cancellation("BaseException")
          THEN pc' = "cancelled"
          ELSE pc' = pc
    /\ UNCHANGED <<json_data, openai, selection, registry, clock, model_usage_history, mode, order,
                   total_attempts, last_error, gate_result, backend_result, response,
                   emitted, requests, gate>>

NextCancel ==
    \/ Next
    \/ CallerDisconnects

SpecCancel == Init /\ [][NextCancel]_vars

----------------------------------------------------------------------------
(* The registry changes while requests are served: rows of the table are
   deactivated, added and re-prioritised by its administrator *)

\* the records the administrator works with
RegistryPool == {ServerA, ServerC}

\* the values the priority column is set to
RegistryPriorities == {1, 2}

InitRegistry ==
    /\ registry \in InjectiveSeqs(RegistryPool, Cardinality(RegistryPool))
    /\ clock = ClockStart
    /\ model_usage_history = <<>>
    /\ mode = "none"
    /\ pc = "idle"
    /\ order = <<>>
    /\ total_attempts = 0
    /\ last_error = NoError
    /\ gate_result = NoGateResult
    /\ backend_result = NoBackendResult
    /\ response = NoResponse
    /\ events = <<>>
    /\ emitted = <<>>
    /\ requests = 0
    /\ gate = [c \in Callers |-> IdleCall]
    /\ selection = NoSelection
    /\ openai = NoOpenAIStream
    /\ json_data = CallerRequest(ChatBody)

\* a row gets is_active = False (or is deleted): the query returns the others
RegistryDeactivate ==
    /\ \E i \in DOMAIN registry :
          registry' = SubSeq(registry, 1, i - 1) \o SubSeq(registry, i + 1, Len(registry))
    /\ UNCHANGED <<json_data, openai, selection, clock, model_usage_history, mode, pc, order,
                   total_attempts, last_error, gate_result, backend_result, response,
                   events, emitted, requests, gate>>

\* a row is inserted or gets is_active = True, with either priority
RegistryAdd ==
    /\ \E s \in RegistryPool, p \in RegistryPriorities :
          /\ \A i \in DOMAIN registry : registry[i].id # s.id
          /\ registry' = Append(registry, [s EXCEPT !.priority = p])
    /\ UNCHANGED <<json_data, openai, selection, clock, model_usage_history, mode, pc, order,
                   total_attempts, last_error, gate_result, backend_result, response,
                   events, emitted, requests, gate>>

\* the priority of a row is set to another value
RegistryReprioritise ==
    /\ \E i \in DOMAIN registry, p \in RegistryPriorities :
          /\ registry[i].priority # p
          /\ registry' = [registry EXCEPT ![i].priority = p]
    /\ UNCHANGED <<json_data, openai, selection, clock, model_usage_history, mode, pc, order,
                   total_attempts, last_error, gate_result, backend_result, response,
                   events, emitted, requests, gate>>

NextRegistry ==
    \/ Next
    \/ RegistryDeactivate
    \/ RegistryAdd
    \/ RegistryReprioritise

SpecRegistry == InitRegistry /\ [][NextRegistry]_vars

----------------------------------------------------------------------------
(* The dispatch of any endpoint's body: POST /api/show names the model in
   `name` or in `model` and goes through the buffered dispatch *)

InitBody ==
    /\ registry \in Snapshots
    /\ clock = ClockStart
    /\ model_usage_history = <<>>
    /\ mode = "none"
    /\ pc = "idle"
    /\ order = <<>>
    /\ total_attempts = 0
    /\ last_error = NoError
    /\ gate_result = NoGateResult
    /\ backend_result = NoBackendResult
    /\ response = NoResponse
    /\ events = <<>>
    /\ emitted = <<>>
    /\ requests = 0
    /\ gate = [c \in Callers |-> IdleCall]
    /\ selection = NoSelection
    /\ openai = NoOpenAIStream
    /\ \E body \in ShowBodies : json_data = CallerRequest(body)

SpecBody == InitBody /\ [][Next]_vars

----------------------------------------------------------------------------
(* The diagnostic GET /admin/server-priority/check/{model_name}: it walks the
   candidates as a dispatch does, up to the first one it finds usable *)

\* the answer of check_server_priority: status error (no record), success (the
\* selected server) or warning (none usable)
DiagnosticResponse(status, id) ==
    [NoResponse EXCEPT !.kind = "diagnostic", !.detail = status, !.server = id]

\* the for loops of check_server_priority go on to the next server of the
\* walk, or end with no server selected
DiagnosticNext ==
    IF total_attempts < Len(order)
    THEN [pc |-> "health", total_attempts |-> total_attempts + 1, response |-> response]
    ELSE [pc |-> "diag_done", total_attempts |-> total_attempts,
          response |-> DiagnosticResponse("warning", 0)]

\* the diagnostic is called: the registry is read, the records are grouped by
\* priority and sorted by weight, and the first server is probed
StartDiagnostic ==
    /\ pc \in {"idle"} \cup TerminalPcs
    /\ requests < MaxRequests
    /\ requests' = requests + 1
    /\ mode' = "diagnostic"
    /\ LET all_servers == get_servers_for_model(registry)
       IN  IF all_servers = <<>>
           THEN /\ pc' = "diag_done"
                /\ response' = DiagnosticResponse("error", 0)
                /\ order' = <<>>
                /\ total_attempts' = 0
           ELSE /\ pc' = "health"
                /\ response' = NoResponse
                /\ order' = DispatchOrder(all_servers)
                /\ total_attempts' = 1
    /\ last_error' = NoError
    /\ gate_result' = NoGateResult
    /\ backend_result' = NoBackendResult
    /\ events' = <<>>
    /\ emitted' = <<>>
    /\ UNCHANGED <<json_data, openai, selection, registry, clock, model_usage_history, gate>>

\* the probe of the server the diagnostic is at returns; a healthy server whose
\* flag is not set is passed to check_server_resource with the virtual model name
DiagnosticHealthReturn ==
    /\ mode = "diagnostic"
    /\ pc = "health"
    /\ \E outcome \in HealthOutcomes :
        LET server == Current
            healthy == check_server_health(outcome)
            probed == Append(events, Event("probe", server, IF healthy THEN "healthy" ELSE "unhealthy"))
            nxt == DiagnosticNext
        IN  IF ~healthy
            THEN /\ events' = probed
                 /\ pc' = nxt.pc
                 /\ total_attempts' = nxt.total_attempts
                 /\ response' = nxt.response
                 /\ gate_result' = NoGateResult
            ELSE IF ~needs_resource_check(server)
            THEN /\ events' = probed
                 /\ pc' = "diag_done"
                 /\ response' = DiagnosticResponse("success", server.id)
                 /\ gate_result' = NoGateResult
                 /\ UNCHANGED total_attempts
            ELSE IF should_skip_resource_check(model_usage_history, server.server_url,
                                               VirtualModel, clock)
            THEN /\ events' = Append(probed, Event("check", server, "skipped"))
                 /\ gate_result' = SkippedResult
                 /\ pc' = "diag_done"
                 /\ response' = DiagnosticResponse("success", server.id)
                 /\ UNCHANGED total_attempts
            ELSE /\ events' = Append(probed, Event("check", server, "remote"))
                 /\ pc' = "monitor"
                 /\ gate_result' = NoGateResult
                 /\ UNCHANGED <<total_attempts, response>>
    /\ UNCHANGED <<json_data, openai, selection, registry, clock, model_usage_history, mode, order,
                   last_error, backend_result, emitted, requests, gate>>

\* the POST /resource-check issued for the diagnostic returns
DiagnosticMonitorReturn ==
    /\ mode = "diagnostic"
    /\ pc = "monitor"
    /\ \E outcome \in MonitorOutcomes :
        LET server == Current
            result == monitor_result(outcome)
            nxt == DiagnosticNext
        IN  /\ gate_result' = result
            /\ events' = Append(events, Event("monitor", server,
                                IF result.error THEN "error"
                                ELSE IF result.sufficient THEN "sufficient" ELSE "insufficient"))
            /\ model_usage_history' =
                   IF monitor_tracks(outcome)
                   THEN track_model_usage(model_usage_history, server.server_url,
                                          VirtualModel, clock)
                   ELSE model_usage_history
            /\ IF result.sufficient \/ result.skipped
               THEN /\ pc' = "diag_done"
                    /\ response' = DiagnosticResponse("success", server.id)
                    /\ UNCHANGED total_attempts
               ELSE /\ pc' = nxt.pc
                    /\ total_attempts' = nxt.total_attempts
                    /\ response' = nxt.response
    /\ UNCHANGED <<json_data, openai, selection, registry, clock, mode, order, last_error,
                   backend_result, emitted, requests, gate>>

NextDiagnostic ==
    \/ Next
    \/ StartDiagnostic
    \/ DiagnosticHealthReturn
    \/ DiagnosticMonitorReturn

SpecDiagnostic == Init /\ [][NextDiagnostic]_vars

----------------------------------------------------------------------------
(* Single-pick selection: LoadBalancer.select_server *)

\* sum(server['weight'] for server in servers[:i])
RECURSIVE CumulativeWeight(_, _)
CumulativeWeight(servers, i) ==
    IF i = 0 THEN 0 ELSE CumulativeWeight(servers, i - 1) + servers[i].weight

\* random.uniform(0, total_weight), both ends included; the weights are
\* integers, so a draw between two integers compares with every cumulative
\* weight as the next integer does and the integers of the range stand for all
RandomValues(servers) ==
    LET total_weight == CumulativeWeight(servers, Len(servers))
    IN  IF total_weight > 0 THEN 0..total_weight ELSE {0}

\* LoadBalancer._weighted_random_select, for a list that is not empty;
\* random_index is the draw of random.choice, used when no weight is positive
weighted_random_select(servers, random_value, random_index) ==
    IF Len(servers) = 1 THEN servers[1]
    ELSE IF CumulativeWeight(servers, Len(servers)) <= 0 THEN servers[random_index]
    ELSE LET reached == {i \in DOMAIN servers : random_value <= CumulativeWeight(servers, i)}
         IN  IF reached # {}
             THEN servers[CHOOSE i \in reached : \A j \in reached : i <= j]
             ELSE servers[Len(servers)]

\* variant: the choice is made among all members of the tier
healthy_servers_whole_tier(group, probed) == group

\* healthy_servers: the members of the tier whose probe returned True
healthy_servers(group, probed) ==
    LET IsHealthy(s) == check_server_health(probed[s.id]) IN SelectSeq(group, IsHealthy)

\* for priority in sorted(priority_groups.keys()): the loop enters tier p; the
\* probe coroutines of its members are created and the first one is awaited
TierEntry(servers, p, probed) ==
    [pc |-> "probing", tier |-> p, group |-> priority_group(servers, p), awaited |-> 1,
     probed |-> probed, started |-> {1}, result |-> 0, counted |-> 0]

\* return None
NoServerAvailable(probed) ==
    [pc |-> "done", tier |-> 0, group |-> <<>>, awaited |-> 0, probed |-> probed,
     started |-> {}, result |-> 0, counted |-> 0]

\* select_server is called: the registry is read and the first tier entered
SelectStart ==
    /\ selection.pc = "idle"
    /\ LET servers == get_servers_for_model(registry)
       IN  selection' =
               IF servers = <<>> THEN NoServerAvailable(<<>>)
               ELSE TierEntry(servers, servers[1].priority, <<>>)
    /\ UNCHANGED <<json_data, openai, registry, clock, model_usage_history, mode, pc, order, total_attempts,
                   last_error, gate_result, backend_result, response, events, emitted,
                   requests, gate>>

\* the awaited probe returns: the next member's probe is awaited, or, after the
\* last member, a healthy member is chosen and counted, or the next tier entered
SelectProbeReturn ==
    /\ selection.pc = "probing"
    /\ \E outcome \in HealthOutcomes :
        LET group == selection.group
            i == selection.awaited
            probed == [id \in DOMAIN selection.probed \cup {group[i].id} |->
                          IF id = group[i].id THEN outcome ELSE selection.probed[id]]
            healthy == healthy_servers(group, probed)
            servers == get_servers_for_model(registry)
            later == {servers[k].priority : k \in DOMAIN servers} \ (1..selection.tier)
        IN  IF i < Len(group)
            THEN selection' = [selection EXCEPT !.probed = probed, !.awaited = i + 1,
                                                !.started = @ \cup {i + 1}]
            ELSE IF healthy # <<>>
            THEN \E random_value \in RandomValues(healthy), random_index \in DOMAIN healthy :
                    LET selected == weighted_random_select(healthy, random_value, random_index)
                    IN  selection' = [selection EXCEPT !.pc = "done", !.probed = probed,
                                                       !.awaited = 0,
                                                       !.result = selected.id,
                                                       !.counted = selected.id]
            ELSE IF later = {}
            THEN selection' = NoServerAvailable(probed)
            ELSE selection' =
                     TierEntry(servers, CHOOSE q \in later : \A r \in later : q <= r, probed)
    /\ UNCHANGED <<json_data, openai, registry, clock, model_usage_history, mode, pc, order, total_attempts,
                   last_error, gate_result, backend_result, response, events, emitted,
                   requests, gate>>

NextSelect ==
    \/ SelectStart
    \/ SelectProbeReturn

SpecSelect == Init /\ [][NextSelect]_vars

----------------------------------------------------------------------------
(* The ordering function on its own: any list of records *)

OrderWeights == {0, 30, 70}
OrderPriorities == {1, 2, 3}

\* a record of an input list; the fields the ordering does not read are fixed
OrderRecord(i, w, p) ==
    [id |-> i, server_url |-> "http://a:11434", actual_model_name |-> "qwen3:14b",
     weight |-> w, priority |-> p, type |-> "CPU", performance |-> 8,
     skip_resource_check |-> FALSE]

\* every list of at most MaxOrderLen records, the i-th with id i
OrderInputs ==
    UNION {{[i \in 1..n |-> OrderRecord(i, f[i][1], f[i][2])] :
                f \in [1..n -> OrderWeights \X OrderPriorities]} : n \in 0..MaxOrderLen}

InitOrder ==
    /\ registry \in OrderInputs
    /\ clock = ClockStart
    /\ model_usage_history = <<>>
    /\ mode = "none"
    /\ pc = "idle"
    /\ order = <<>>
    /\ total_attempts = 0
    /\ last_error = NoError
    /\ gate_result = NoGateResult
    /\ backend_result = NoBackendResult
    /\ response = NoResponse
    /\ events = <<>>
    /\ emitted = <<>>
    /\ requests = 0
    /\ gate = [c \in Callers |-> IdleCall]
    /\ selection = NoSelection
    /\ openai = NoOpenAIStream
    /\ json_data = CallerRequest(ChatBody)

\* the registry is read and the candidates are put in dispatch order
ComputeOrder ==
    /\ pc = "idle"
    /\ order' = DispatchOrder(get_servers_for_model(registry))
    /\ pc' = "ordered"
    /\ UNCHANGED <<json_data, openai, selection, registry, clock, model_usage_history, mode, total_attempts, last_error,
                   gate_result, backend_result, response, events, emitted, requests, gate>>

SpecOrder == InitOrder /\ [][ComputeOrder]_vars

----------------------------------------------------------------------------
(* The weighted choice on its own: any list of healthy candidates *)

\* the weight column is an integer without any constraint
SelectWeights == {-1, 0, 1, 2}

\* every list of at most MaxOrderLen candidates of one tier, the i-th with id i
SelectInputs ==
    UNION {{[i \in 1..n |-> OrderRecord(i, f[i], 1)] : f \in [1..n -> SelectWeights]} :
               n \in 0..MaxOrderLen}

InitWeighted ==
    /\ registry = <<>>
    /\ clock = ClockStart
    /\ model_usage_history = <<>>
    /\ mode = "none"
    /\ pc = "idle"
    /\ order = <<>>
    /\ total_attempts = 0
    /\ last_error = NoError
    /\ gate_result = NoGateResult
    /\ backend_result = NoBackendResult
    /\ response = NoResponse
    /\ events = <<>>
    /\ emitted = <<>>
    /\ requests = 0
    /\ gate = [c \in Callers |-> IdleCall]
    /\ \E servers \in SelectInputs :
           selection = [NoSelection EXCEPT !.pc = "choosing", !.group = servers]
    /\ openai = NoOpenAIStream
    /\ json_data = CallerRequest(ChatBody)

\* _weighted_random_select(servers) is called and returns; None for an empty list
WeightedSelect ==
    /\ selection.pc = "choosing"
    /\ LET servers == selection.group
       IN  IF servers = <<>>
           THEN selection' = [selection EXCEPT !.pc = "chosen", !.result = 0]
           ELSE \E random_value \in RandomValues(servers), random_index \in DOMAIN servers :
                   selection' =
                       [selection EXCEPT
                            !.pc = "chosen",
                            !.result = weighted_random_select(servers, random_value,
                                                              random_index).id]
    /\ UNCHANGED <<json_data, openai, registry, clock, model_usage_history, mode, pc, order, total_attempts,
                   last_error, gate_result, backend_result, response, events, emitted,
                   requests, gate>>

SpecWeighted == InitWeighted /\ [][WeightedSelect]_vars

----------------------------------------------------------------------------
(* The resource gate on its own: concurrent check_server_resource calls, the
   clock, and the administrative clear *)

\* the (server_url, model_name) pairs the gate is asked about: two different
\* pairs whose usage keys coincide, and a third pair with a key of its own
GateTargets == {<<"http://a:11434", "qwen3">>, <<"http://a", "11434:qwen3">>,
                <<"http://a", "qwen3">>}

InitGate ==
    /\ registry = <<>>
    /\ clock = ClockStart
    /\ model_usage_history = <<>>
    /\ mode = "none"
    /\ pc = "idle"
    /\ order = <<>>
    /\ total_attempts = 0
    /\ last_error = NoError
    /\ gate_result = NoGateResult
    /\ backend_result = NoBackendResult
    /\ response = NoResponse
    /\ events = <<>>
    /\ emitted = <<>>
    /\ requests = 0
    /\ gate = [c \in Callers |-> IdleCall]
    /\ selection = NoSelection
    /\ openai = NoOpenAIStream
    /\ json_data = CallerRequest(ChatBody)

\* time passes
Tick ==
    /\ clock < ClockStart + MaxTicks * TickSeconds
    /\ clock' = clock + TickSeconds
    /\ UNCHANGED <<json_data, openai, selection, registry, model_usage_history, mode, pc, order, total_attempts, last_error,
                   gate_result, backend_result, response, events, emitted, requests, gate>>

\* a caller enters check_server_resource(server_url, ..., model_name): the fast
\* path returns at once, otherwise the POST /resource-check is issued
GateEnter(c) ==
    /\ gate[c].pc \in {"idle", "returned"}
    /\ \E target \in GateTargets :
        LET server_url == target[1]
            model_name == target[2]
        IN
        gate' = [gate EXCEPT ![c] =
                    IF should_skip_resource_check(model_usage_history, server_url,
                                                  model_name, clock)
                    THEN [pc |-> "returned", server_url |-> server_url,
                          model_name |-> model_name, outcome |-> "none",
                          result |-> SkippedResult]
                    ELSE [pc |-> "posting", server_url |-> server_url,
                          model_name |-> model_name, outcome |-> "none",
                          result |-> NoGateResult]]
    /\ UNCHANGED <<json_data, openai, selection, registry, clock, model_usage_history, mode, pc, order, total_attempts,
                   last_error, gate_result, backend_result, response, events, emitted,
                   requests>>

\* the POST /resource-check of a caller returns or fails
GateReturn(c) ==
    /\ gate[c].pc = "posting"
    /\ \E outcome \in MonitorOutcomes :
        /\ gate' = [gate EXCEPT ![c].pc = "returned", ![c].outcome = outcome,
                                ![c].result = monitor_result(outcome)]
        /\ model_usage_history' =
               IF monitor_tracks(outcome)
               THEN track_model_usage(model_usage_history, gate[c].server_url,
                                      gate[c].model_name, clock)
               ELSE model_usage_history
    /\ UNCHANGED <<json_data, openai, selection, registry, clock, mode, pc, order, total_attempts, last_error,
                   gate_result, backend_result, response, events, emitted, requests>>

\* variant: the clear drops the expired entries only
clear_model_usage_history_expired_only ==
    /\ model_usage_history # <<>>
    /\ model_usage_history' =
           [k \in {q \in DOMAIN model_usage_history :
                      ~is_expired(clock, model_usage_history[q])} |-> model_usage_history[k]]
    /\ UNCHANGED <<json_data, openai, selection, registry, clock, mode, pc, order, total_attempts, last_error,
                   gate_result, backend_result, response, events, emitted, requests, gate>>

\* ResourceMonitorClient.clear_model_usage_history (POST /admin/model-usage/clear)
clear_model_usage_history ==
    /\ model_usage_history # <<>>
    /\ model_usage_history' = <<>>
    /\ UNCHANGED <<json_data, openai, selection, registry, clock, mode, pc, order, total_attempts, last_error,
                   gate_result, backend_result, response, events, emitted, requests, gate>>

NextGate ==
    \/ Tick
    \/ \E c \in Callers : GateEnter(c)
    \/ \E c \in Callers : GateReturn(c)
    \/ clear_model_usage_history

SpecGate == InitGate /\ [][NextGate]_vars

----------------------------------------------------------------------------
(* Properties *)

\* the candidates the current request has probed, in order
ProbeEvents == SelectSeq(events, LAMBDA e : e.op = "probe")
AttemptedIds == [k \in DOMAIN ProbeEvents |-> ProbeEvents[k].id]

EventsOf(op, id) == {k \in DOMAIN events : events[k].op = op /\ events[k].id = id}

PoolServer(id) == CHOOSE s \in ServerPool : s.id = id

\* C1: buffered dispatch raises the terminal 'all servers unavailable' failure
\* only when every record of the snapshot, in every priority tier, has been
\* attempted exactly once.
C1_ExhaustiveRetry ==
    (mode = "buffered" /\ response.detail = "all_servers_unavailable") =>
        /\ \A i \in DOMAIN registry : Cardinality(EventsOf("probe", registry[i].id)) = 1
        /\ Len(ProbeEvents) = Len(registry)
        /\ response.total_servers = Len(registry)

C1_Witness ==
    /\ mode = "buffered"
    /\ pc = "exhausted"
    /\ Len(registry) = 3
    /\ \E i, j \in DOMAIN registry : registry[i].priority # registry[j].priority

\* the environment of the example of C2: A and B answer every probe unhealthy,
\* C answers healthy, passes the resource gate and accepts the call
C2_Scenario ==
    /\ registry = <<ServerA, ServerB, ServerC>>
    /\ mode = "buffered"
    /\ pc \in TerminalPcs
    /\ \A k \in DOMAIN events :
        /\ events[k].id \in {ServerA.id, ServerB.id} => events[k].res = "unhealthy"
        /\ events[k].id = ServerC.id =>
              events[k].res \in {"healthy", "skipped", "remote", "sufficient", "accepted", "ok"}

\* C2 as stated: with tiers {1: [A(30), B(70)], 2: [C(100)]}, A and B unhealthy,
\* C healthy and sufficient, the call returns C's translated response after
\* attempting A, then B, then C.
C2_AsStated ==
    C2_Scenario =>
        /\ response.kind = "data"
        /\ response.server = ServerC.id
        /\ AttemptedIds = <<ServerA.id, ServerB.id, ServerC.id>>

\* C2 amended: in that scenario the call returns C's translated response after
\* attempting B (weight 70), then A (weight 30), then C.
C2_WeightOrder ==
    C2_Scenario =>
        /\ response.kind = "data"
        /\ response.server = ServerC.id
        /\ response.body.hasModel => response.body.model = VirtualModel
        /\ AttemptedIds = <<ServerB.id, ServerA.id, ServerC.id>>

C2_Witness == C2_Scenario /\ pc = "success" /\ response.body.hasModel

\* C3: the dispatch order lists every record once, by ascending priority, within
\* a priority by descending weight, and records equal in both keep the order
\* the registry returned them in (ids number the registry's return order); the
\* order is thereby a function of the record list alone.
C3_FullOrder ==
    pc = "ordered" =>
        /\ Len(order) = Len(registry)
        /\ \A i \in DOMAIN registry : \E k \in DOMAIN order : order[k] = registry[i]
        /\ \A i, j \in DOMAIN order :
            i < j =>
                /\ order[i].priority <= order[j].priority
                /\ order[i].priority = order[j].priority => order[i].weight >= order[j].weight
                /\ (order[i].priority = order[j].priority /\ order[i].weight = order[j].weight)
                       => order[i].id < order[j].id

C3_Witness ==
    /\ pc = "ordered"
    /\ Len(order) = 3
    /\ order # registry
    /\ \E i, j \in DOMAIN order :
        i # j /\ order[i].priority = order[j].priority /\ order[i].weight = order[j].weight
    /\ \E i, j \in DOMAIN order : order[i].priority # order[j].priority

\* C4 as stated: in streaming dispatch a candidate whose stream opening is
\* answered 404, 4xx or 5xx, or fails to connect, has nothing emitted to the
\* caller and, while candidates are left, the dispatch goes on to the next one.
C4_StreamingFallback ==
    (/\ mode = "streaming"
     /\ total_attempts < Len(order)
     /\ \E k \in DOMAIN events : events[k].op = "call" /\ events[k].res = "rejected") =>
        /\ emitted = <<>>
        /\ pc # "stream_done"

\* C5: a stream that fails after it was opened ends with exactly one error
\* chunk, its last, and no candidate is probed, gated or called afterwards.
C5_MidStreamFailure ==
    \A k \in DOMAIN events :
        events[k].op = "stream_error" =>
            /\ k = Len(events)
            /\ pc = "stream_done"
            /\ emitted # <<>>
            /\ emitted[Len(emitted)] = ErrorEvent
            /\ Cardinality({j \in DOMAIN emitted : emitted[j] = ErrorEvent}) = 1
            /\ Cardinality({j \in DOMAIN events : events[j].op = "call"}) = 1
            /\ \A j \in DOMAIN events :
                events[j].op \in {"probe", "check", "monitor", "call"} =>
                    \E a \in DOMAIN events :
                        /\ j <= a
                        /\ events[a].op = "call"
                        /\ events[a].res = "accepted"
                        /\ events[a].id = events[k].id

C5_Witness ==
    /\ pc = "stream_done"
    /\ events # <<>>
    /\ events[Len(events)].op = "stream_error"
    /\ Len(emitted) >= 2
    /\ emitted[1].form = "json_line"
    /\ total_attempts < Len(order)

\* a backend reply is a failure by its status or by the call not completing
C6_Failed(result) ==
    \/ result.net # "ok"
    \/ result.status = 404
    \/ (result.status >= 400 /\ result.status < 500)
    \/ result.status >= 500

\* the candidate of the last backend call was counted as failed and the loop
\* went on to the next candidate, or raised the terminal failure past the last
C6_Advanced ==
    /\ events[Len(events)].op = "call"
    /\ events[Len(events)].res = "rejected"
    /\ last_error.id = events[Len(events)].id
    /\ \/ /\ pc = "health"
          /\ total_attempts >= 2
          /\ order[total_attempts - 1].id = last_error.id
       \/ /\ pc = "exhausted"
          /\ order[Len(order)].id = last_error.id
          /\ Len(ProbeEvents) = Len(order)

C6_Succeeded ==
    /\ pc = "success"
    /\ response.kind = "data"
    /\ response.server = Current.id

\* C6 as stated: in buffered dispatch a reply with status 404, 4xx or 5xx, a
\* timeout and a connection error each fail the candidate and the loop moves to
\* the next candidate; a reply with any other status ends the dispatch as a
\* success.
C6_AsStated ==
    (mode = "buffered" /\ backend_result # NoBackendResult) =>
        IF C6_Failed(backend_result) THEN C6_Advanced ELSE C6_Succeeded

\* C6 amended: in buffered dispatch a reply with status 404, 4xx or 5xx, a
\* timeout and a connection error each fail the candidate and the loop moves to
\* the next candidate (the terminal failure only when none is left); so does a
\* reply of another status whose rewrite raises; every other reply ends the
\* dispatch as a success.
C6_StatusClassification ==
    (mode = "buffered" /\ backend_result # NoBackendResult) =>
        IF C6_Failed(backend_result) \/ backend_result.raised
        THEN C6_Advanced
        ELSE C6_Succeeded

C6_Witness ==
    /\ mode = "buffered"
    /\ backend_result = [net |-> "ok", status |-> 404, raised |-> FALSE, body |-> NoBody]
    /\ pc = "health"
    /\ total_attempts = 2
    /\ Len(ProbeEvents) = 1

\* C7 as stated: a successful buffered dispatch served by a candidate whose
\* actual model name differs from the virtual name returns no actual name: the
\* model field reads the virtual name and no entry of the models list keeps the
\* actual name, also when the response has both.
C7_NoActualName ==
    (mode = "buffered" /\ pc = "success" /\ response.body.kind = "object"
        /\ Current.actual_model_name # VirtualModel) =>
        /\ response.body.hasModel => response.body.model = VirtualModel
        /\ \A i \in DOMAIN response.body.models :
               response.body.models[i] # Current.actual_model_name

\* C8: a candidate whose record sets skip_resource_check is never passed to
\* check_server_resource (no fast-path lookup, no remote call, no cache entry),
\* in buffered and in streaming dispatch, and its healthy probe is followed
\* directly by the backend call.
C8_SkipFlag ==
    \A k \in DOMAIN events :
        PoolServer(events[k].id).skip_resource_check =>
            /\ events[k].op \notin {"check", "monitor"}
            /\ UsageKey(PoolServer(events[k].id).server_url, VirtualModel)
                   \notin DOMAIN model_usage_history
            /\ (events[k].op = "probe" /\ events[k].res = "healthy") =>
                   IF k = Len(events)
                   THEN pc = IF mode = "buffered" THEN "forward" ELSE "returned"
                   ELSE events[k + 1].op = "call" /\ events[k + 1].id = events[k].id

C8_Witness ==
    /\ mode = "streaming"
    /\ requests = 2
    /\ \E k \in DOMAIN events :
        /\ events[k].op = "call"
        /\ events[k].res = "accepted"
        /\ PoolServer(events[k].id).skip_resource_check
    /\ model_usage_history # <<>>

\* a caller enters check_server_resource in this step
GateEnters(c) == gate[c].pc \in {"idle", "returned"} /\ gate'[c] # gate[c]

\* the age of the entry the call of caller c is about, when it enters
EnteredKey(c) == UsageKey(gate'[c].server_url, gate'[c].model_name)

\* C9: a check_server_resource call for a key whose entry is younger than
\* SAME_MODEL_INTERVAL returns (True, skipped, same_model_concurrent) without a
\* request to the resource monitor and leaves the cache as it was.
C9_FastPath ==
    [][\A c \in Callers :
        (/\ GateEnters(c)
         /\ EnteredKey(c) \in DOMAIN model_usage_history
         /\ clock - model_usage_history[EnteredKey(c)] < SAME_MODEL_INTERVAL) =>
            /\ gate'[c].pc = "returned"
            /\ gate'[c].result = [sufficient |-> TRUE, skipped |-> TRUE,
                                  reason |-> "same_model_concurrent", error |-> FALSE]
            /\ model_usage_history' = model_usage_history]_vars

C9_Witness ==
    \E c \in Callers :
        /\ gate[c].pc = "returned"
        /\ gate[c].result.skipped
        /\ UsageKey(gate[c].server_url, gate[c].model_name) \in DOMAIN model_usage_history
        /\ clock - model_usage_history[UsageKey(gate[c].server_url, gate[c].model_name)]
               = TickSeconds

\* a remote check of caller c ends in this step with a recording
GateRecords(c) ==
    gate[c].pc = "posting" /\ gate'[c].pc = "returned" /\ gate'[c].result.reason = "checked"

\* an entry older than the usage window never makes a check skip
C10_NoSkipWhenExpired ==
    \A c \in Callers :
        (/\ GateEnters(c)
         /\ EnteredKey(c) \in DOMAIN model_usage_history
         /\ clock - model_usage_history[EnteredKey(c)] > MODEL_USAGE_WINDOW) =>
            gate'[c].pc = "posting"

\* C10 as stated: an entry older than MODEL_USAGE_WINDOW never makes a check
\* skip, and after any operation the cache holds no entry older than the window.
C10_AsStated ==
    [][/\ C10_NoSkipWhenExpired
       /\ \A key \in DOMAIN model_usage_history' :
              clock' - model_usage_history'[key] <= MODEL_USAGE_WINDOW]_vars

\* C10 amended: an entry older than MODEL_USAGE_WINDOW never makes a check skip,
\* and the cache holds no entry older than the window right after a recording
\* (the purge is done by _track_model_usage, not by the passing of time).
C10_LazyPurge ==
    [][/\ C10_NoSkipWhenExpired
       /\ (\E c \in Callers : GateRecords(c)) =>
              \A key \in DOMAIN model_usage_history' :
                  clock' - model_usage_history'[key] <= MODEL_USAGE_WINDOW]_vars

C10_Witness ==
    \E c \in Callers :
        /\ gate[c].pc = "posting"
        /\ UsageKey(gate[c].server_url, gate[c].model_name) \in DOMAIN model_usage_history
        /\ clock - model_usage_history[UsageKey(gate[c].server_url, gate[c].model_name)]
               > MODEL_USAGE_WINDOW
        /\ Cardinality(DOMAIN model_usage_history) = 2


\* the administrative clear is the step taken: the cache changes while no call
\* of check_server_resource moves
CacheCleared == gate' = gate /\ model_usage_history' # model_usage_history

\* C11: clear_model_usage_history leaves the cache empty, and a check entered
\* while the cache is empty, for whichever pair, goes to the resource monitor
\* instead of returning the skipped outcome.
C11_ClearForcesRealCheck ==
    [][/\ CacheCleared => model_usage_history' = <<>>
       /\ \A c \in Callers :
            (GateEnters(c) /\ model_usage_history = <<>>) =>
                /\ gate'[c].pc = "posting"
                /\ ~gate'[c].result.skipped]_vars

\* one caller was answered from the fast path for a pair; the cache has been
\* emptied since, and the other caller's check of that pair is at the monitor
C11_Witness ==
    /\ model_usage_history = <<>>
    /\ gate["c1"].pc = "returned"
    /\ gate["c1"].result.skipped
    /\ gate["c2"].pc = "posting"
    /\ gate["c2"].server_url = gate["c1"].server_url
    /\ gate["c2"].model_name = gate["c1"].model_name

\* C12 as stated: a non-skipped check whose remote request ends in a transport
\* error, a timeout, a non-200 status, a payload whose status is not 'success' or
\* a payload without a sufficient flag returns sufficient = false with an error
\* detail, and sufficient = true is returned only for a success payload that
\* reported it.
C12_NeverOptimistic ==
    \A c \in Callers :
        (gate[c].pc = "returned" /\ ~gate[c].result.skipped) =>
            /\ gate[c].outcome \in {"request_error", "timeout", "non_200", "not_success",
                                    "bad_payload", "no_flag"} =>
                   (~gate[c].result.sufficient /\ gate[c].result.error)
            /\ gate[c].result.sufficient => gate[c].outcome = "sufficient"


\* C13: the terminal failure of a dispatch, buffered or streaming, is a 503 that
\* carries the number of candidates tried, which is the number of records of the
\* snapshot, and the error of the last candidate of the order.
C13_TerminalDetail ==
    response.detail = "all_servers_unavailable" =>
        LET last == events[Len(events)] IN
        /\ response.kind = "http_error"
        /\ response.status = 503
        /\ response.total_servers = Len(registry)
        /\ response.total_servers = Len(ProbeEvents)
        /\ response.last_error.id = order[Len(order)].id
        /\ response.last_error.id = last.id
        /\ response.last_error.kind =
               IF last.op = "probe" THEN "health"
               ELSE IF last.op = "monitor" THEN "resource"
               ELSE response.last_error.kind
        /\ last.op \in {"probe", "monitor", "call"}
        /\ last.op = "call" => response.last_error.kind \in {"transport", "http", "handling"}

C13_Witness ==
    /\ mode = "streaming"
    /\ pc = "exhausted"
    /\ Len(order) = 3
    /\ response.last_error.kind = "resource"
    /\ events[1].res = "unhealthy"

\* C14: with no record for the virtual model a dispatch, buffered or streaming,
\* ends at once in the 503 'no servers configured', with no probe, no resource
\* check, no backend call and no counter increment issued.
C14_NoServers ==
    /\ (registry = <<>> /\ requests > 0) =>
          /\ pc = "no_config"
          /\ response.kind = "http_error"
          /\ response.status = 503
          /\ response.detail = "no_servers_configured"
          /\ events = <<>>
          /\ emitted = <<>>
          /\ model_usage_history = <<>>
    /\ pc = "no_config" => registry = <<>>

C14_Witness ==
    /\ registry = <<>>
    /\ mode = "streaming"
    /\ requests = 2
    /\ pc = "no_config"


\* the place of a candidate in the order of the current request
PositionOf(id) == CHOOSE i \in DOMAIN order : order[i].id = id

FailedResults == {"unhealthy", "insufficient", "error", "rejected"}

\* C15: within one dispatch the candidates are tried one after another: every
\* call issued so far belongs to the candidate the loop is at or to an earlier
\* one, every earlier candidate has ended in a failure, each candidate is probed
\* and invoked at most once, nothing is issued after a backend accepted the
\* call, and the usage counter is incremented at most once.
C15_Sequential ==
    /\ LET position == [k \in DOMAIN events |-> PositionOf(events[k].id)]
       IN  /\ \A k \in DOMAIN events : position[k] <= total_attempts
           /\ \A k \in 1..(Len(events) - 1) : position[k] <= position[k + 1]
    /\ \A i \in DOMAIN order :
          LET mine == {k \in DOMAIN events : events[k].id = order[i].id}
          IN  /\ i < total_attempts =>
                    \E k \in mine :
                        /\ events[k].res \in FailedResults
                        /\ \A j \in mine : j <= k
              /\ Cardinality({k \in mine : events[k].op = "probe"}) <= 1
              /\ Cardinality({k \in mine : events[k].op = "call"}) <= 1
    /\ \A k \in DOMAIN events :
          (events[k].op = "call" /\ events[k].res = "accepted") =>
              \A j \in DOMAIN events :
                  j > k => events[j].op \notin {"probe", "check", "monitor", "call"}
    /\ Cardinality({k \in DOMAIN events : events[k].op = "incr"}) <= 1

C15_Witness ==
    /\ mode = "buffered"
    /\ pc = "success"
    /\ total_attempts = 3
    /\ events[Len(events)].op = "incr"
    /\ \E k \in DOMAIN events : events[k].op = "call" /\ events[k].res = "rejected"


IncrementEvents == {k \in DOMAIN events : events[k].op = "incr"}

\* C17 as stated: a buffered dispatch that returns a success has called the
\* counter increment exactly once, for the serving candidate and for no other,
\* whatever the accepted body is; one that ends in the terminal failure has
\* called it for nobody.
C17_IncrementOnce ==
    mode = "buffered" =>
        /\ pc = "success" =>
              /\ Cardinality(IncrementEvents) = 1
              /\ \A k \in IncrementEvents : events[k].id = response.server
        /\ pc = "exhausted" => IncrementEvents = {}

\* C18: an increment that fails or finds no row changes nothing for the caller:
\* the buffered dispatch returns the rewritten reply of the serving candidate,
\* the opened stream goes on without an error chunk, and no further candidate is
\* probed, gated or called.
C18_IncrementFailureSwallowed ==
    \A k \in IncrementEvents :
        events[k].res # "ok" =>
            /\ events[k].id = Current.id
            /\ \A j \in DOMAIN events :
                  j > k => events[j].op \notin {"probe", "check", "monitor", "call"}
            /\ IF mode = "buffered"
               THEN /\ pc = "success"
                    /\ response = DataResponse(Current,
                                      rewrite_response(backend_result.body, VirtualModel,
                                                       Current.actual_model_name))
               ELSE /\ pc \in {"streaming", "stream_done"}
                    /\ (\E j \in DOMAIN emitted : emitted[j] = ErrorEvent) =>
                           events[Len(events)].op = "stream_error"

C18_Witness ==
    /\ mode = "buffered"
    /\ pc = "success"
    /\ events[Len(events)] = Event("incr", Current, "failed")
    /\ total_attempts < Len(order)
    /\ response.body.hasModel


\* the record of the snapshot select_server returned
Selected == CHOOSE i \in DOMAIN registry : registry[i].id = selection.result

ProbedUnhealthy(server) ==
    /\ server.id \in DOMAIN selection.probed
    /\ ~check_server_health(selection.probed[server.id])

\* C19: select_server returns a member that was probed healthy, of the first
\* tier that has a healthy member: every member of a lower-numbered tier was
\* probed unhealthy; it returns None only when every record was probed unhealthy.
C19_SinglePick ==
    selection.pc = "done" =>
        IF selection.result # 0
        THEN /\ \E i \in DOMAIN registry : registry[i].id = selection.result
             /\ selection.result \in DOMAIN selection.probed
             /\ check_server_health(selection.probed[selection.result])
             /\ \A i \in DOMAIN registry :
                   registry[i].priority < registry[Selected].priority =>
                       ProbedUnhealthy(registry[i])
        ELSE \A i \in DOMAIN registry : ProbedUnhealthy(registry[i])

C19_Witness ==
    /\ selection.pc = "done"
    /\ selection.result = ServerC.id
    /\ Len(registry) = 3
    /\ Cardinality(DOMAIN selection.probed) = 3

\* C20 as stated: while a tier of several members is probed, the probes of all
\* its members are in flight or completed (none waits for another to return),
\* and a member is chosen only when every probe of the tier has completed.
C20_ConcurrentProbes ==
    /\ (selection.pc = "probing" /\ Len(selection.group) > 1) =>
          selection.started = DOMAIN selection.group
    /\ (selection.pc = "done" /\ selection.result # 0) =>
          \A i \in DOMAIN registry :
              registry[i].priority = registry[Selected].priority =>
                  registry[i].id \in DOMAIN selection.probed


\* the candidates of the list a call of _weighted_random_select can return
Returnable(servers) ==
    {weighted_random_select(servers, random_value, random_index).id :
         random_value \in RandomValues(servers), random_index \in DOMAIN servers}

\* C21 as stated: when the total weight of the list is positive the candidates
\* the weighted choice can return are exactly those of positive weight, and
\* when it is zero or negative every candidate of the list can be returned.
C21_WeightedSelection ==
    LET servers == selection.group
        total_weight == CumulativeWeight(servers, Len(servers))
    IN  selection.pc = "chosen" /\ servers # <<>> =>
            /\ total_weight > 0 =>
                   /\ servers[selection.result].weight > 0
                   /\ Returnable(servers) = {i \in DOMAIN servers : servers[i].weight > 0}
            /\ total_weight <= 0 => Returnable(servers) = DOMAIN servers


OpenAISentinels == {k \in DOMAIN openai.out : openai.out[k] = DoneSentinel}

\* C22 as stated: every stream of /v1/chat/completions ends with the [DONE]
\* sentinel, emitted exactly once and as the last event, whatever the backend
\* stream does and also when all candidates fail.
C22_DoneSentinel ==
    /\ \A k \in OpenAISentinels : k = Len(openai.out)
    /\ openai.pc \in OpenAITerminal => OpenAISentinels = {Len(openai.out)} \ {0}
    /\ openai.pc \in OpenAITerminal => OpenAISentinels # {}

\* the candidate the streaming dispatch returned has failed: at the opening of
\* the stream or while it was read
CommittedFailure ==
    \E k \in DOMAIN events :
        \/ events[k].op = "stream_error"
        \/ events[k].op = "call" /\ events[k].res = "rejected"

\* C23 as stated: a failure after the streaming dispatch has committed to a
\* candidate reaches the caller as an in-band error event, on the native stream
\* and on the OpenAI-compatible stream.
C23_InBandError ==
    (mode = "streaming" /\ CommittedFailure) =>
        /\ \E k \in DOMAIN emitted : emitted[k] = ErrorEvent
        /\ openai.pc \in OpenAITerminal =>
               \E k \in DOMAIN openai.out : openai.out[k].form = "error"

\* C24 as stated: when all candidates fail the caller receives a structured
\* error envelope whose summary carries the number of candidates attempted: the
\* 503 of the dispatch on the native surfaces, an error event on the
\* OpenAI-compatible stream.
C24_ErrorEnvelope ==
    pc = "exhausted" =>
        /\ response = AllServersUnavailable(Len(order), last_error)
        /\ openai.pc \in OpenAITerminal =>
               \E k \in DOMAIN openai.out :
                   openai.out[k] = OpenAIError("http_exception")


\* the event the operation in flight at the given await leaves when it returns
InFlightOp(await) ==
    IF await = "health" THEN "probe"
    ELSE IF await = "monitor" THEN "monitor"
    ELSE IF await = "forward" THEN "call"
    ELSE "none"

\* C25 as stated: once the caller has cancelled the request no health probe,
\* resource check, backend call or increment of the usage counter is issued for
\* it; the only event that may follow is the return of the operation that was
\* in flight.
C25_CancellationStops ==
    \A k \in DOMAIN events :
        events[k].op = "disconnect" =>
            \A j \in DOMAIN events :
                (j > k /\ events[j].op \in {"probe", "check", "monitor", "call", "incr"}) =>
                    /\ j = k + 1
                    /\ events[j].op = InFlightOp(events[k].res)
                    /\ events[j].id = events[k].id


Records(servers) == {servers[i] : i \in DOMAIN servers}

\* C26: a dispatch takes its candidates from the registry as it is when the
\* dispatch starts (records deactivated, added or re-prioritised before are in
\* or out of the order accordingly, tiers ascending), the candidates of a
\* running dispatch stay as they are whatever is changed in the registry
\* meanwhile, and every call of the dispatch goes to one of them.
C26_SnapshotPerDispatch ==
    [][/\ requests' # requests =>
             /\ Records(order') = Records(registry)
             /\ Len(order') = Len(registry)
             /\ \A i, j \in DOMAIN order' : i < j => order'[i].priority <= order'[j].priority
       /\ requests' = requests => order' = order
       /\ \A k \in DOMAIN events' : \E i \in DOMAIN order' : order'[i].id = events'[k].id]_vars

\* the second dispatch walks a snapshot whose two records both have priority 2
\* (one was re-prioritised before it started) and has been served by its
\* second candidate although every record was deactivated while it ran
C26_Witness ==
    /\ requests = 2
    /\ pc = "success"
    /\ registry = <<>>
    /\ Len(order) = 2
    /\ order[1].priority = 2
    /\ \E k \in DOMAIN events : events[k].op = "call" /\ events[k].id = order[2].id


\* the remote check of caller c ends in this step
GateReturns(c) == gate[c].pc = "posting" /\ gate'[c].pc = "returned"

CheckedKey(c) == UsageKey(gate[c].server_url, gate[c].model_name)

Preceded(k, n, id) == k > n /\ \A j \in (k - n)..(k - 1) : events[j].id = id

\* C28: a request is forwarded to a backend only when, in the same attempt, the
\* probe of that candidate returned healthy and then the record's skip flag was
\* set, or the gate answered from its fast path, or the remote check said
\* sufficient; a candidate with an unhealthy probe or a rejected check gets no
\* request. Every request probes anew: the events are those of the current
\* request only.
C28_GatedForward ==
    \A k \in DOMAIN events :
        LET id == events[k].id IN
        /\ events[k].op = "call" =>
              \/ /\ PoolServer(id).skip_resource_check
                 /\ Preceded(k, 1, id)
                 /\ events[k - 1].op = "probe" /\ events[k - 1].res = "healthy"
              \/ /\ ~PoolServer(id).skip_resource_check
                 /\ Preceded(k, 2, id)
                 /\ events[k - 2].op = "probe" /\ events[k - 2].res = "healthy"
                 /\ events[k - 1].op = "check" /\ events[k - 1].res = "skipped"
              \/ /\ ~PoolServer(id).skip_resource_check
                 /\ Preceded(k, 3, id)
                 /\ events[k - 3].op = "probe" /\ events[k - 3].res = "healthy"
                 /\ events[k - 2].op = "check" /\ events[k - 2].res = "remote"
                 /\ events[k - 1].op = "monitor" /\ events[k - 1].res = "sufficient"
        /\ (events[k].op \in {"probe", "monitor"}
               /\ events[k].res \in {"unhealthy", "insufficient", "error"}) =>
              \A j \in DOMAIN events : events[j].id = id => events[j].op # "call"

\* the second request, streaming: its first candidate was turned away by the
\* remote check, its second was probed again and passed through the fast path
\* armed by the first request, and the stream to it was opened
C28_Witness ==
    /\ requests = 2
    /\ mode = "streaming"
    /\ Len(events) >= 6
    /\ events[3].op = "monitor" /\ events[3].res = "insufficient"
    /\ events[4].op = "probe" /\ events[4].res = "healthy"
    /\ events[5].op = "check" /\ events[5].res = "skipped"
    /\ events[6].op = "call" /\ events[6].res = "accepted"


IsEvent(k, op, id) == k <= Len(events) => (events[k].op = op /\ events[k].id = id)

\* the events from the k-th on are the walk from the i-th candidate on, as one
\* rule common to both dispatches prescribes it from the outcomes: the probe; on
\* an unhealthy probe the next candidate; else, unless the record's flag is set,
\* the gate; on a rejected check the next candidate; else the forward
RECURSIVE WalkFrom(_, _)
WalkFrom(i, k) ==
    IF k > Len(events)
    THEN IF i > Len(order) THEN pc = "exhausted" ELSE total_attempts = i /\ pc = "health"
    ELSE /\ i <= Len(order)
         /\ events[k].op = "probe" /\ events[k].id = order[i].id
         /\ IF events[k].res = "unhealthy" THEN WalkFrom(i + 1, k + 1)
            ELSE IF order[i].skip_resource_check THEN IsEvent(k + 1, "call", order[i].id)
            ELSE /\ k + 1 <= Len(events)
                 /\ events[k + 1].op = "check" /\ events[k + 1].id = order[i].id
                 /\ IF events[k + 1].res = "skipped"
                    THEN IsEvent(k + 2, "call", order[i].id)
                    ELSE /\ IsEvent(k + 2, "monitor", order[i].id)
                         /\ k + 2 <= Len(events) =>
                               IF events[k + 2].res = "sufficient"
                               THEN IsEvent(k + 3, "call", order[i].id)
                               ELSE WalkFrom(i + 1, k + 3)

\* C29: buffered and streaming dispatch walk the same order, the one computed
\* from the snapshot, and decide for every candidate up to and including the
\* first one forwarded to by the same rule from the outcomes of its probe and
\* of its check.
C29_SameWalk ==
    mode \in {"buffered", "streaming"} =>
        /\ order = DispatchOrder(get_servers_for_model(registry))
        /\ order # <<>> => WalkFrom(1, 1)

\* a streaming dispatch has handed out its third candidate after an unhealthy
\* probe of the first and a rejected check of the second
C29_Witness ==
    /\ mode = "streaming"
    /\ pc = "returned"
    /\ total_attempts = 3
    /\ events[1].res = "unhealthy"
    /\ events[4].op = "monitor" /\ events[4].res \in {"insufficient", "error"}
    /\ events[Len(events)].id = order[3].id


\* C30: in a streaming dispatch the increment of the usage counter is called at
\* most once, for the candidate handed out, directly after its stream opened
\* with a status below 400 and before any chunk is received or emitted; once a
\* chunk has arrived it has been called exactly once; it is called for no
\* candidate whose stream was refused (404, another 4xx, 5xx, transport error)
\* and for none turned away by the probe or the gate.
C30_StreamingIncrement ==
    mode = "streaming" =>
        IF IncrementEvents = {}
        THEN /\ pc # "streaming"
             /\ \A j \in DOMAIN events : events[j].op \notin {"chunk", "stream_error"}
             /\ \A j \in DOMAIN events : events[j].op = "call" => events[j].res = "rejected"
             /\ \A j \in DOMAIN emitted : emitted[j] = ErrorEvent
        ELSE LET k == CHOOSE i \in IncrementEvents : TRUE
             IN  /\ IncrementEvents = {k}
                 /\ k > 1
                 /\ events[k - 1].op = "call" /\ events[k - 1].res = "accepted"
                 /\ events[k - 1].id = events[k].id
                 /\ events[k].id = Current.id
                 /\ backend_result.net = "ok" /\ backend_result.status < 400
                 /\ pc \in {"streaming", "stream_done"}
                 /\ \A j \in DOMAIN events :
                       /\ events[j].op \in {"chunk", "stream_error"} => j > k
                       /\ events[j].res \in FailedResults => events[j].id # events[k].id

\* a stream opened on the second candidate after the first was turned away by
\* the gate: the increment was called once, and a chunk has since been emitted
C30_Witness ==
    /\ mode = "streaming"
    /\ pc = "streaming"
    /\ total_attempts = 2
    /\ Cardinality(IncrementEvents) = 1
    /\ \E j \in DOMAIN events : events[j].op = "monitor" /\ events[j].res = "insufficient"
    /\ events[Len(events)].op = "chunk"
    /\ Len(emitted) = 1


\* the chunks received from the serving candidate, in order of arrival
ReceivedChunks == SelectSeq(events, LAMBDA e : e.op = "chunk")

\* what the generator has yielded from chunks, in order
ForwardedChunks == SelectSeq(emitted, LAMBDA e : e.form # "error_event")

\* C31 as stated: on the native streaming path every chunk received (none is
\* the empty string) has been yielded once, at its position: an object with a
\* model field carries the virtual model name, and a chunk that does not parse
\* as JSON, be it text, several lines or whitespace only, is verbatim.
C31_ChunkForwarding ==
    mode = "streaming" =>
        /\ Len(ForwardedChunks) = Len(ReceivedChunks)
        /\ \A j \in DOMAIN ForwardedChunks :
              j <= Len(ReceivedChunks) =>
                  /\ ForwardedChunks[j].kind = ReceivedChunks[j].res
                  /\ IF ForwardedChunks[j].kind = "object"
                     THEN /\ ForwardedChunks[j].form = "json_line"
                          /\ ForwardedChunks[j].hasModel =>
                                ForwardedChunks[j].model = VirtualModel
                     ELSE ForwardedChunks[j].form = "verbatim"


\* the backend calls issued by the current dispatch, in order
CallEvents == SelectSeq(events, LAMBDA e : e.op = "call")

\* C32 as stated: every body sent to a candidate has a model field holding
\* that candidate's own actual model name, one body per backend call, and no
\* step changes the body the caller gave.
C32_RequestBodyRewrite ==
    /\ [](/\ Len(json_data.sent) = Len(CallEvents)
          /\ \A k \in DOMAIN json_data.sent :
                k <= Len(CallEvents) =>
                    /\ json_data.sent[k].hasModel
                    /\ json_data.sent[k].model =
                           PoolServer(CallEvents[k].id).actual_model_name)
    /\ [][json_data'.original = json_data.original]_vars


\* caller c's remote check returns in this step with an outcome that is recorded
Records33(c) ==
    /\ gate[c].pc = "posting"
    /\ gate'[c].pc = "returned"
    /\ monitor_tracks(gate'[c].outcome)

\* C33: a step that records a check for a key sets that key's timestamp to the
\* time of the step, removes exactly the other entries older than
\* MODEL_USAGE_WINDOW, adds no other key and leaves the timestamp of every
\* other entry as it was, whatever the other caller is in the middle of.
C33_RecordingFrame ==
    [][\A c \in Callers :
          Records33(c) =>
              LET key == UsageKey(gate[c].server_url, gate[c].model_name)
              IN  /\ key \in DOMAIN model_usage_history'
                  /\ model_usage_history'[key] = clock
                  /\ DOMAIN model_usage_history' \subseteq DOMAIN model_usage_history \cup {key}
                  /\ \A k \in DOMAIN model_usage_history \ {key} :
                        IF clock - model_usage_history[k] > MODEL_USAGE_WINDOW
                        THEN k \notin DOMAIN model_usage_history'
                        ELSE /\ k \in DOMAIN model_usage_history'
                             /\ model_usage_history'[k] = model_usage_history[k]]_vars

\* two entries of different age are in the cache: one caller's check has just
\* been recorded while the other caller's request for the other key, whose
\* entry is older and unexpired, is in flight
C33_Witness ==
    \E c \in Callers, d \in Callers :
        /\ gate[c].pc = "returned" /\ monitor_tracks(gate[c].outcome)
        /\ gate[d].pc = "posting"
        /\ LET key == UsageKey(gate[c].server_url, gate[c].model_name)
               other == UsageKey(gate[d].server_url, gate[d].model_name)
           IN  /\ key # other
               /\ key \in DOMAIN model_usage_history
               /\ other \in DOMAIN model_usage_history
               /\ model_usage_history[key] = clock
               /\ model_usage_history[other] < clock
               /\ clock - model_usage_history[other] <= MODEL_USAGE_WINDOW


\* the probe of the current candidate returns in this step
ProbeReturns ==
    /\ mode \in {"buffered", "streaming"}
    /\ pc = "health"
    /\ Len(events') > Len(events)

\* C34: the probe answers healthy or not healthy and nothing else: a status
\* other than 200, a timeout and a connection error are all not healthy; the
\* step in which a probe returns leaves the registry and the usage cache as
\* they were and never ends the dispatch with a propagated exception: after an
\* unhealthy probe the loop is at the next candidate or has run out of them.
C34_ProbeNeverRaises ==
    /\ [](\A outcome \in HealthOutcomes :
             /\ check_server_health(outcome) \in BOOLEAN
             /\ outcome # "200" => ~check_server_health(outcome))
    /\ [][ProbeReturns =>
             LET probe == events'[Len(events) + 1]
             IN  /\ probe.op = "probe"
                 /\ probe.id = Current.id
                 /\ probe.res \in {"healthy", "unhealthy"}
                 /\ registry' = registry
                 /\ model_usage_history' = model_usage_history
                 /\ pc' # "propagated"
                 /\ probe.res = "unhealthy" =>
                       IF total_attempts < Len(order)
                       THEN pc' = "health" /\ total_attempts' = total_attempts + 1
                       ELSE pc' = "exhausted"]_vars

\* the probe of the first candidate came back unhealthy and the streaming loop
\* has gone on to probe the second, with the cache still empty
C34_Witness ==
    /\ mode = "streaming"
    /\ pc = "health"
    /\ total_attempts = 2
    /\ Len(events) = 1
    /\ events[1].op = "probe" /\ events[1].res = "unhealthy"
    /\ model_usage_history = <<>>


\* C35: with every network call returning or timing out, a dispatch that is
\* under way ends: in a returned response or stream, or in the terminal
\* failure. It attempts at most as many candidates as its snapshot has active
\* records and none twice: the k-th probe is the probe of the k-th record of
\* the order, whose records are distinct. The ends exclude each other: a
\* success carries data or a stream, the failure the 503.
C35_Terminates ==
    /\ [](/\ mode # "none" => Len(order) = Len(get_servers_for_model(registry))
          /\ total_attempts <= Len(order)
          /\ Len(ProbeEvents) <= total_attempts
          /\ \A k \in DOMAIN ProbeEvents : ProbeEvents[k].id = order[k].id
          /\ \A k \in DOMAIN order : k > 1 => \A j \in 1..(k - 1) : order[j].id # order[k].id
          /\ pc = "success" => response.kind = "data"
          /\ pc = "returned" => response.kind = "stream"
          /\ pc \in {"exhausted", "no_config"} => response.kind = "http_error")
    /\ (pc \in DispatchAwaits) ~> (pc \in {"success", "returned", "exhausted"})

\* a buffered dispatch over three records has ended in the terminal failure
\* after probing each of them once
C35_Witness ==
    /\ mode = "buffered"
    /\ pc = "exhausted"
    /\ Len(order) = 3
    /\ Len(ProbeEvents) = 3
    /\ response.total_servers = 3


\* C36 as stated: a real check that did not report sufficient leaves the fast
\* path unarmed for its key: directly after it returns, a check of the same
\* (server, model) pair would not be answered as skipped.
C36_InsufficientDoesNotArm ==
    [][\A c \in Callers :
          (/\ gate[c].pc = "posting"
           /\ gate'[c].pc = "returned"
           /\ ~gate'[c].result.sufficient) =>
              ~should_skip_resource_check(model_usage_history', gate[c].server_url,
                                          gate[c].model_name, clock')]_vars


\* C37 as stated: the fast path answers for a (server, model) pair only from an
\* entry of that pair: a pair without an entry is not skipped, and recording a
\* check of one pair does not make the fast path answer for another pair that
\* it did not answer for before.
C37_SkipOnlyOwnEntry ==
    /\ [](\A target \in GateTargets :
             should_skip_resource_check(model_usage_history, target[1], target[2], clock) =>
                 UsageKey(target[1], target[2]) \in DOMAIN model_usage_history)
    /\ [][\A c \in Callers :
             Records33(c) =>
                 \A target \in GateTargets \ {<<gate[c].server_url, gate[c].model_name>>} :
                     ~should_skip_resource_check(model_usage_history, target[1], target[2],
                                                 clock) =>
                         ~should_skip_resource_check(model_usage_history', target[1],
                                                     target[2], clock')]_vars


\* C38 as stated: no two callers have a request to the resource monitor in
\* flight for the same usage key, and a real check that is recorded for a key
\* comes at least SAME_MODEL_INTERVAL after the recorded check the cache holds
\* for that key.
C38_SingleFlight ==
    /\ [](\A c \in Callers, d \in Callers :
             (c # d /\ gate[c].pc = "posting" /\ gate[d].pc = "posting") =>
                 UsageKey(gate[c].server_url, gate[c].model_name)
                     # UsageKey(gate[d].server_url, gate[d].model_name))
    /\ [][\A c \in Callers :
             LET key == UsageKey(gate[c].server_url, gate[c].model_name)
             IN  (Records33(c) /\ key \in DOMAIN model_usage_history) =>
                     clock - model_usage_history[key] >= SAME_MODEL_INTERVAL]_vars


\* C39 as stated: no step of the diagnostic, from its call to its answer,
\* changes the usage cache, so that a dispatch after it finds the cache it
\* would have found without it.
C39_DiagnosticReadOnly ==
    [][mode' = "diagnostic" => model_usage_history' = model_usage_history]_vars

====
